---- MODULE Spec2Model ----
(***************************************************************************)
(* Report aggregation and auto-flagging of blog posts in the community     *)
(* service: POST /posts/:postId/report (routes/commentRoutes.js), the      *)
(* Report model (models/Comment.js, second half) and the report/flag       *)
(* methods of the BlogPost model; the ranking of posts for a caller,       *)
(* getRecommendedPosts (services/recommendationService.js); the comments   *)
(* of a post with their counters (models/Comment.js, first half, and the   *)
(* comment routes); and the votes and the best answer of a question        *)
(* (models/Question.js, models/Answer.js, routes/communityRoutes.js).      *)
(*                                                                         *)
(* Time is counted in hours.  Weights are fixed-point: reason weights in   *)
(* tenths, credibility weights in hundredths, weighted scores in           *)
(* thousandths (ScoreUnit).  The reasons the model submits have weights    *)
(* that are exact in binary floating point, so the sums are exact in the   *)
(* program as well.                                                        *)
(***************************************************************************)
EXTENDS Integers, Sequences, FiniteSets, TLC

VARIABLES now, posts, reports, pc, req, doc, report, autoFlagResult, resp, base, probe,
          catalogue, rank, comments, questions, answers

vars == <<now, posts, reports, pc, req, doc, report, autoFlagResult, resp, base, probe,
          catalogue, rank, comments, questions, answers>>

(* ------------------------------ bounds --------------------------------- *)
MaxUsers == 11
MaxReports == 2
MaxReportsSeq == 3
MaxNow == 4
MaxRecent == 1
MaxHistory == 6
MaxAgeDays == 100
MaxReviews == 1
MaxReportsReview == 1
MaxCatalogue == 4
MaxSkip == 1
MaxLimit == 2
MaxRecencyDays == 300
MaxTokens == 2
MaxHistoryCheck == 6
MaxComments == 3
MaxRepliesCount == 3
MaxVoters == 2

(* one post under report, two requests in flight at most *)
Posts == {1}
Handlers == {1, 2}
Users == 1..MaxUsers
MissingPost == Cardinality(Posts) + 1
TickHours == {2}
ReasonInputs == {"VIOLENCE"}
ReasonInputsSeq == {"SCAM_OR_FRAUD", "VIOLENCE"}

(* ------------------------------ constants ------------------------------ *)
ScoreUnit == 10 * 100

REPORT_REASONS ==
  "SPAM" :> 10 @@ "INAPPROPRIATE_CONTENT" :> 15 @@ "HARASSMENT" :> 20 @@
  "MISINFORMATION" :> 18 @@ "SCAM_OR_FRAUD" :> 25 @@ "HATE_SPEECH" :> 28 @@
  "VIOLENCE" :> 30 @@ "COPYRIGHT" :> 12 @@ "OTHER" :> 10

CREDIBILITY_TIERS ==
  [ NEW_USER     |-> [minDays |-> 0,  maxDays |-> 7,  weight |-> 50],
    REGULAR_USER |-> [minDays |-> 7,  maxDays |-> 30, weight |-> 100],
    TRUSTED_USER |-> [minDays |-> 30, maxDays |-> 90, weight |-> 150],
    VETERAN_USER |-> [minDays |-> 90, maxDays |-> -1, weight |-> 200] ]

IMMEDIATE_THRESHOLD == 15
MODERATE_THRESHOLD == 30
LOW_THRESHOLD == 50
IMMEDIATE_WINDOW == 1
MODERATE_WINDOW == 24
LOW_WINDOW == 168

HoursPerDay == 24
DefaultAccountAgeDays == 30

(* a field the token does not carry is <<>>, a field it carries is <<v>> *)
Undefined == <<>>
Null == "null"
(* a nullable date or text is <<>> when null and a non-empty tuple otherwise *)
NullValue == <<>>

CountedStatuses == {"pending", "reviewed"}
Statuses == {"pending", "reviewed", "dismissed", "action_taken"}
Severities == {"none", "moderate", "high", "critical"}

sevRank(s) ==
  CASE s = "none" -> 0
    [] s = "moderate" -> 1
    [] s = "high" -> 2
    [] s = "critical" -> 3

(* The author of every post of the model is user 1. *)
authorOf(p) == 1

(* ----------------------------- Report model ---------------------------- *)
(* Mutant: the upper end of every tier is inclusive. *)
calculateCredibilityWeightInclusive(accountCreatedAt, isVerified, at) ==
  LET accountAge == (at - accountCreatedAt) \div HoursPerDay
      tier == IF accountAge <= CREDIBILITY_TIERS.NEW_USER.maxDays
                THEN CREDIBILITY_TIERS.NEW_USER.weight
              ELSE IF accountAge <= CREDIBILITY_TIERS.REGULAR_USER.maxDays
                THEN CREDIBILITY_TIERS.REGULAR_USER.weight
              ELSE IF accountAge <= CREDIBILITY_TIERS.TRUSTED_USER.maxDays
                THEN CREDIBILITY_TIERS.TRUSTED_USER.weight
              ELSE CREDIBILITY_TIERS.VETERAN_USER.weight
  IN IF isVerified THEN (tier * 15) \div 10 ELSE tier

calculateCredibilityWeight(accountCreatedAt, isVerified, at) ==
  LET accountAge == (at - accountCreatedAt) \div HoursPerDay
      tier == IF accountAge < CREDIBILITY_TIERS.NEW_USER.maxDays
                THEN CREDIBILITY_TIERS.NEW_USER.weight
              ELSE IF accountAge < CREDIBILITY_TIERS.REGULAR_USER.maxDays
                THEN CREDIBILITY_TIERS.REGULAR_USER.weight
              ELSE IF accountAge < CREDIBILITY_TIERS.TRUSTED_USER.maxDays
                THEN CREDIBILITY_TIERS.TRUSTED_USER.weight
              ELSE CREDIBILITY_TIERS.VETERAN_USER.weight
  IN IF isVerified THEN (tier * 15) \div 10 ELSE tier

RECURSIVE SumScores(_)
SumScores(s) ==
  IF s = <<>> THEN 0 ELSE Head(s).weightedScore + SumScores(Tail(s))

(* timeWindowHours = null (and 0, which is falsy as well): no time filter *)
NoWindow == 0
NullStats == [totalReports |-> 0, totalWeightedScore |-> 0]

(* Mutant: reports of every status are counted. *)
statsMatchAnyStatus(r, postId, timeWindowHours, at) ==
  /\ r.post = postId
  /\ (timeWindowHours # NoWindow => r.createdAt >= at - timeWindowHours)

statsMatch(r, postId, timeWindowHours, at) ==
  /\ r.post = postId
  /\ r.status \in CountedStatuses
  /\ (timeWindowHours # NoWindow => r.createdAt >= at - timeWindowHours)

getPostReportStats(rs, postId, timeWindowHours, at) ==
  LET matched == SelectSeq(rs, LAMBDA r : statsMatch(r, postId, timeWindowHours, at))
  IN IF Len(matched) > 0
       THEN [totalReports |-> Len(matched), totalWeightedScore |-> SumScores(matched)]
       ELSE NullStats

(* Mutant: the one-hour threshold is exclusive. *)
shouldAutoFlagStrict(rs, postId, at) ==
  LET immediateStats == getPostReportStats(rs, postId, IMMEDIATE_WINDOW, at)
  IN IF immediateStats.totalWeightedScore > IMMEDIATE_THRESHOLD * ScoreUnit
       THEN [shouldFlag |-> TRUE, severity |-> "critical",
             reason |-> <<immediateStats.totalReports,
                          immediateStats.totalWeightedScore, IMMEDIATE_WINDOW>>]
       ELSE [shouldFlag |-> FALSE, severity |-> "none", reason |-> NullValue]

(* Mutant: the loosest window is checked first. *)
shouldAutoFlagLoosestFirst(rs, postId, at) ==
  LET immediateStats == getPostReportStats(rs, postId, IMMEDIATE_WINDOW, at)
      moderateStats == getPostReportStats(rs, postId, MODERATE_WINDOW, at)
      lowStats == getPostReportStats(rs, postId, LOW_WINDOW, at)
  IN IF lowStats # NullStats
        /\ lowStats.totalWeightedScore >= LOW_THRESHOLD * ScoreUnit
       THEN [shouldFlag |-> TRUE, severity |-> "moderate",
             reason |-> <<lowStats.totalReports,
                          lowStats.totalWeightedScore, LOW_WINDOW>>]
     ELSE IF moderateStats # NullStats
        /\ moderateStats.totalWeightedScore >= MODERATE_THRESHOLD * ScoreUnit
       THEN [shouldFlag |-> TRUE, severity |-> "high",
             reason |-> <<moderateStats.totalReports,
                          moderateStats.totalWeightedScore, MODERATE_WINDOW>>]
     ELSE IF immediateStats # NullStats
        /\ immediateStats.totalWeightedScore >= IMMEDIATE_THRESHOLD * ScoreUnit
       THEN [shouldFlag |-> TRUE, severity |-> "critical",
             reason |-> <<immediateStats.totalReports,
                          immediateStats.totalWeightedScore, IMMEDIATE_WINDOW>>]
     ELSE [shouldFlag |-> FALSE, severity |-> "none", reason |-> NullValue]

shouldAutoFlag(rs, postId, at) ==
  LET immediateStats == getPostReportStats(rs, postId, IMMEDIATE_WINDOW, at)
      moderateStats == getPostReportStats(rs, postId, MODERATE_WINDOW, at)
      lowStats == getPostReportStats(rs, postId, LOW_WINDOW, at)
  IN IF immediateStats # NullStats
        /\ immediateStats.totalWeightedScore >= IMMEDIATE_THRESHOLD * ScoreUnit
       THEN [shouldFlag |-> TRUE, severity |-> "critical",
             reason |-> <<immediateStats.totalReports,
                          immediateStats.totalWeightedScore, IMMEDIATE_WINDOW>>]
     ELSE IF moderateStats # NullStats
        /\ moderateStats.totalWeightedScore >= MODERATE_THRESHOLD * ScoreUnit
       THEN [shouldFlag |-> TRUE, severity |-> "high",
             reason |-> <<moderateStats.totalReports,
                          moderateStats.totalWeightedScore, MODERATE_WINDOW>>]
     ELSE IF lowStats # NullStats
        /\ lowStats.totalWeightedScore >= LOW_THRESHOLD * ScoreUnit
       THEN [shouldFlag |-> TRUE, severity |-> "moderate",
             reason |-> <<lowStats.totalReports,
                          lowStats.totalWeightedScore, LOW_WINDOW>>]
     ELSE [shouldFlag |-> FALSE, severity |-> "none", reason |-> NullValue]

(* ---------------------------- BlogPost model --------------------------- *)
NewPost ==
  [ reportCount |-> 0, totalReportScore |-> 0, isFlagged |-> FALSE,
    flaggedAt |-> NullValue, flagReason |-> NullValue, flagSeverity |-> "none",
    commentsCount |-> 0 ]

(* Mutant: the score of the report is not added. *)
addReportCountOnly(d, weightedScore) ==
  [d EXCEPT !.reportCount = d.reportCount + 1]

(* The in-memory document after addReport's two assignments. *)
addReport(d, weightedScore) ==
  [d EXCEPT !.reportCount = d.reportCount + 1,
            !.totalReportScore = d.totalReportScore + weightedScore]

(* The in-memory document after flagPost's four assignments. *)
flagPost(d, severity, reason, at) ==
  [d EXCEPT !.isFlagged = TRUE, !.flaggedAt = <<at>>,
            !.flagSeverity = severity, !.flagReason = reason]

(* Mutant: the severity stays as it was. *)
unflagPostKeepsSeverity(d) ==
  [d EXCEPT !.isFlagged = FALSE, !.flaggedAt = NullValue, !.flagReason = NullValue]

(* The in-memory document after unflagPost's four assignments. *)
unflagPost(d) ==
  [d EXCEPT !.isFlagged = FALSE, !.flaggedAt = NullValue,
            !.flagSeverity = "none", !.flagReason = NullValue]

(* save() writes the modified paths of the document, and only those. *)
saveReportPaths(stored, d) ==
  [stored EXCEPT !.reportCount = d.reportCount,
                 !.totalReportScore = d.totalReportScore]

saveFlagPaths(stored, d) ==
  [stored EXCEPT !.isFlagged = d.isFlagged, !.flaggedAt = d.flaggedAt,
                 !.flagSeverity = d.flagSeverity, !.flagReason = d.flagReason]

(* ------------------------- identity of the caller ---------------------- *)
(* verifyToken attaches userId, username, email, role and platform; the    *)
(* account-creation timestamp and the verification flag are not among them *)
verifyToken(u) ==
  [userId |-> u, createdAt |-> Undefined, isVerified |-> Undefined]

(* The accounts behind the tokens: user 2 joined 3 days before hour 0,     *)
(* user 3 is a verified user of 100 days, every other user joined 30 days  *)
(* before hour 0 and is not verified.                                      *)
accountOf(u) ==
  CASE u = 2 -> [userId |-> u, createdAt |-> -(3 * HoursPerDay), isVerified |-> FALSE]
    [] u = 3 -> [userId |-> u, createdAt |-> -(100 * HoursPerDay), isVerified |-> TRUE]
    [] OTHER -> [userId |-> u, createdAt |-> -(30 * HoursPerDay), isVerified |-> FALSE]

reqCreatedAt(user, at) ==
  IF user.createdAt # Undefined THEN user.createdAt[1]
  ELSE at - DefaultAccountAgeDays * HoursPerDay

reqIsVerified(user) ==
  IF user.isVerified # Undefined THEN user.isVerified[1] ELSE FALSE

(* ------------------------------- state --------------------------------- *)
NoReq == [userId |-> 0, postId |-> 0, reason |-> Null]
NoResult == [shouldFlag |-> FALSE, severity |-> "none", reason |-> NullValue]
NoResp == [status |-> 0]
NoProbe == [postId |-> 0]
NoCatalogue == <<>>
NoRank == [pc |-> "idle"]

(* the Comment, Question and Answer collections the service starts on: no  *)
(* comment, and question 1, asked by user 1, with an answer by user 2 and  *)
(* an answer by user 3                                                     *)
NoComments == <<>>
NoVotes == [upvotes |-> 0, downvotes |-> 0, score |-> 0]
AnswerAuthors == <<2, 3>>

newAnswer(userId) ==
  [ question |-> 1, answeredBy |-> userId, votes |-> NoVotes, votedBy |-> <<>>,
    isBestAnswer |-> FALSE, isDeleted |-> FALSE ]

FirstQuestions ==
  [ q \in {1} |->
      [ askedBy |-> 1, votes |-> NoVotes, votedBy |-> <<>>,
        answersCount |-> Len(AnswerAuthors), isAnswered |-> TRUE,
        bestAnswerId |-> NullValue, isDeleted |-> FALSE ] ]

FirstAnswers == [a \in 1..Len(AnswerAuthors) |-> newAnswer(AnswerAuthors[a])]

InFlight == {"findExisting", "saveReport", "addReport", "shouldAutoFlag", "flagPost"}
busy(h) == pc[h] \in InFlight

(* Reporters are interchangeable: a user who has not been seen yet is      *)
(* always the lowest-numbered one.  The callers are the author, that new   *)
(* user and the MaxRecent users seen last.                                 *)
SeenUsers ==
  {1} \cup {reports[i].reporter.userId : i \in 1..Len(reports)}
      \cup {req[h].userId : h \in {g \in Handlers : busy(g)}}

(* SeenUsers is always 1..k, so the next new user is k + 1. *)
NewUser == Cardinality(SeenUsers) + 1

CallerInputs == {u \in Users : u = 1 \/ (u <= NewUser /\ u + MaxRecent >= NewUser)}

Pending == Cardinality({h \in Handlers : pc[h] \in {"findExisting", "saveReport"}})

(* ----------------- POST /posts/:postId/report, step by step ------------ *)
respond(h, r) ==
  /\ pc' = [pc EXCEPT ![h] = "idle"]
  /\ req' = [req EXCEPT ![h] = NoReq]
  /\ resp' = [handler |-> h, userId |-> req[h].userId, postId |-> req[h].postId] @@ r
  /\ doc' = [doc EXCEPT ![h] = Null]
  /\ report' = [report EXCEPT ![h] = Null]
  /\ autoFlagResult' = [autoFlagResult EXCEPT ![h] = NoResult]

created(h, d, result) ==
  [ status |-> 201, weightedScore |-> report[h].weightedScore,
    post |-> [reportCount |-> d.reportCount, totalReportScore |-> d.totalReportScore,
              isFlagged |-> d.isFlagged, flagSeverity |-> d.flagSeverity],
    autoFlagged |-> result.shouldFlag ]

(* Mutant: the author check is missing. *)
receiveNoAuthorCheck(h, u, p, reason) ==
  /\ IF p \notin Posts
       THEN /\ resp' = [handler |-> h, userId |-> u, postId |-> p, status |-> 404]
            /\ UNCHANGED <<pc, req, doc>>
     ELSE /\ pc' = [pc EXCEPT ![h] = "findExisting"]
          /\ req' = [req EXCEPT ![h] = [userId |-> u, postId |-> p, reason |-> reason]]
          /\ doc' = [doc EXCEPT ![h] = posts[p]]
          /\ resp' = NoResp
  /\ UNCHANGED <<report, autoFlagResult>>

(* The request arrives, BlogPost.findById answers and the author check runs. *)
receive(h, u, p, reason) ==
  /\ IF p \notin Posts
       THEN /\ resp' = [handler |-> h, userId |-> u, postId |-> p, status |-> 404]
            /\ UNCHANGED <<pc, req, doc>>
     ELSE IF authorOf(p) = u
       THEN /\ resp' = [handler |-> h, userId |-> u, postId |-> p, status |-> 400,
                        message |-> "own post"]
            /\ UNCHANGED <<pc, req, doc>>
     ELSE /\ pc' = [pc EXCEPT ![h] = "findExisting"]
          /\ req' = [req EXCEPT ![h] = [userId |-> u, postId |-> p, reason |-> reason]]
          /\ doc' = [doc EXCEPT ![h] = posts[p]]
          /\ resp' = NoResp
  /\ UNCHANGED <<report, autoFlagResult>>

ReportPost(h, u, p, reason) ==
  /\ ~busy(h)
  /\ \A g \in Handlers : g < h => busy(g)
  /\ Len(reports) + Pending < base + MaxReports
  /\ receive(h, u, p, reason)
  /\ UNCHANGED <<now, posts, reports, base, probe, catalogue, rank, comments, questions, answers>>

(* One request at a time: the next one arrives after the last has answered. *)
ReportPostSeq(h, u, p, reason) ==
  /\ \A g \in Handlers : ~busy(g)
  /\ h = 1
  /\ Len(reports) < base + MaxReportsSeq
  /\ receive(h, u, p, reason)
  /\ UNCHANGED <<now, posts, reports, base, probe, catalogue, rank, comments, questions, answers>>

(* Mutant: the look-up forgets the reporter's earlier report. *)
existingReportNone(rs, postId, userId) ==
  \E i \in 1..Len(rs) : rs[i].post = postId /\ rs[i].reporter.userId = userId /\ i > Len(rs)

existingReport(rs, postId, userId) ==
  \E i \in 1..Len(rs) : rs[i].post = postId /\ rs[i].reporter.userId = userId

newReportBy(user, r, at) ==
  LET reasonWeight == REPORT_REASONS[r.reason]
      credibilityWeight ==
        calculateCredibilityWeight(reqCreatedAt(user, at), reqIsVerified(user), at)
  IN [ post |-> r.postId,
       reporter |-> [userId |-> r.userId,
                     accountCreatedAt |-> reqCreatedAt(user, at),
                     isVerified |-> reqIsVerified(user)],
       reason |-> r.reason,
       reasonWeight |-> reasonWeight,
       credibilityWeight |-> credibilityWeight,
       weightedScore |-> reasonWeight * credibilityWeight,
       status |-> "pending" ]

newReport(r, at) == newReportBy(verifyToken(r.userId), r, at)

(* --------------------------- initial states --------------------------- *)
Empty(start) ==
  /\ now = start
  /\ pc = [h \in Handlers |-> "idle"]
  /\ req = [h \in Handlers |-> NoReq]
  /\ doc = [h \in Handlers |-> Null]
  /\ report = [h \in Handlers |-> Null]
  /\ autoFlagResult = [h \in Handlers |-> NoResult]
  /\ resp = NoResp
  /\ probe = NoProbe
  /\ catalogue = NoCatalogue
  /\ rank = NoRank
  /\ comments = NoComments
  /\ questions = FirstQuestions
  /\ answers = FirstAnswers

(* The service starts on an empty database, or on one of the histories    *)
(* that earlier one-at-a-time traffic leaves on post 1: users 2, 3, ...    *)
(* report it, one request after the other, at the given hours and for the  *)
(* given reasons.  SpecSeq reaches each history from a shorter one         *)
(* (SeedReachedS3 ... SeedReachedV6).                                      *)
scam(hour) == [hour |-> hour, reason |-> "SCAM_OR_FRAUD"]
violence(hour) == [hour |-> hour, reason |-> "VIOLENCE"]

SeedS3 == <<scam(0), scam(0), scam(0)>>
SeedV3 == <<violence(0), violence(0), violence(0)>>
SeedV4 == <<violence(0), violence(0), violence(0), violence(0)>>
SeedV6 == <<violence(0), violence(0), violence(0), violence(2), violence(4), violence(4)>>
Seeds == { <<>>, SeedS3, SeedV3, SeedV4, SeedV6 }

seedReport(u, e) ==
  [createdAt |-> e.hour]
    @@ newReport([userId |-> u, postId |-> 1, reason |-> e.reason], e.hour)

seedHistory(seed) == [i \in 1..Len(seed) |-> seedReport(i + 1, seed[i])]

seedNow(seed) == IF seed = <<>> THEN 0 ELSE seed[Len(seed)].hour

(* post 1 after the first n requests of the seed, each handled to its end *)
RECURSIVE seedPost(_, _)
seedPost(seed, n) ==
  IF n = 0 THEN NewPost
  ELSE LET before == seedPost(seed, n - 1)
           d == addReport(before, seedHistory(seed)[n].weightedScore)
           result == shouldAutoFlag(SubSeq(seedHistory(seed), 1, n), 1, seed[n].hour)
       IN IF result.shouldFlag /\ ~before.isFlagged
            THEN flagPost(d, result.severity, result.reason, seed[n].hour)
            ELSE d

seedPosts(seed) == [p \in Posts |-> IF p = 1 THEN seedPost(seed, Len(seed)) ELSE NewPost]

Init ==
  \E seed \in Seeds :
    /\ Empty(seedNow(seed))
    /\ posts = seedPosts(seed)
    /\ reports = seedHistory(seed)
    /\ base = Len(seed)

(* Report.findOne answers; without a hit the weights are computed and the  *)
(* Report document is built.                                               *)
FindExisting(h) ==
  /\ pc[h] = "findExisting"
  /\ IF existingReport(reports, req[h].postId, req[h].userId)
       THEN respond(h, [status |-> 400, message |-> "already reported"])
       ELSE /\ pc' = [pc EXCEPT ![h] = "saveReport"]
            /\ report' = [report EXCEPT ![h] = newReport(req[h], now)]
            /\ resp' = NoResp
            /\ UNCHANGED <<req, doc, autoFlagResult>>
  /\ UNCHANGED <<now, posts, reports, base, probe, catalogue, rank, comments, questions, answers>>

(* report.save() *)
SaveReport(h) ==
  /\ pc[h] = "saveReport"
  /\ reports' = Append(reports, [createdAt |-> now] @@ report[h])
  /\ pc' = [pc EXCEPT ![h] = "addReport"]
  /\ resp' = NoResp
  /\ UNCHANGED <<now, posts, req, doc, report, autoFlagResult, base, probe, catalogue, rank, comments, questions, answers>>

(* post.addReport(weightedScore) *)
AddReport(h) ==
  /\ pc[h] = "addReport"
  /\ LET d == addReport(doc[h], report[h].weightedScore)
     IN /\ doc' = [doc EXCEPT ![h] = d]
        /\ posts' = [posts EXCEPT ![req[h].postId] = saveReportPaths(@, d)]
  /\ pc' = [pc EXCEPT ![h] = "shouldAutoFlag"]
  /\ resp' = NoResp
  /\ UNCHANGED <<now, reports, req, report, autoFlagResult, base, probe, catalogue, rank, comments, questions, answers>>

(* Mutant: the post is flagged again whatever its flag says. *)
mustFlagAlways(result, d) == result.shouldFlag

(* autoFlagResult.shouldFlag && !post.isFlagged *)
mustFlag(result, d) == result.shouldFlag /\ ~d.isFlagged

(* Report.shouldAutoFlag(postId) and the decision taken on its answer. *)
ShouldAutoFlag(h) ==
  /\ pc[h] = "shouldAutoFlag"
  /\ LET result == shouldAutoFlag(reports, req[h].postId, now)
     IN IF mustFlag(result, doc[h])
          THEN /\ pc' = [pc EXCEPT ![h] = "flagPost"]
               /\ autoFlagResult' = [autoFlagResult EXCEPT ![h] = result]
               /\ resp' = NoResp
               /\ UNCHANGED <<req, doc, report>>
          ELSE respond(h, created(h, doc[h], result))
  /\ UNCHANGED <<now, posts, reports, base, probe, catalogue, rank, comments, questions, answers>>

(* post.flagPost(severity, reason), then the 201 answer. *)
FlagPost(h) ==
  /\ pc[h] = "flagPost"
  /\ LET d == flagPost(doc[h], autoFlagResult[h].severity, autoFlagResult[h].reason, now)
     IN /\ posts' = [posts EXCEPT ![req[h].postId] = saveFlagPaths(@, d)]
        /\ respond(h, created(h, d, autoFlagResult[h]))
  /\ UNCHANGED <<now, reports, base, probe, catalogue, rank, comments, questions, answers>>

(* A database call of the handler throws: the catch block answers 500.    *)
DbError(h) ==
  /\ busy(h)
  /\ respond(h, [status |-> 500, failed |-> pc[h]])
  /\ UNCHANGED <<now, posts, reports, base, probe, catalogue, rank, comments, questions, answers>>

Tick(d) ==
  /\ now + d <= MaxNow
  /\ now' = now + d
  /\ resp' = NoResp
  /\ UNCHANGED <<posts, reports, pc, req, doc, report, autoFlagResult, base, probe, catalogue, rank, comments, questions, answers>>

Next ==
  \/ \E h \in Handlers, u \in CallerInputs, p \in Posts \cup {MissingPost},
        reason \in ReasonInputs : ReportPost(h, u, p, reason)
  \/ \E h \in Handlers : FindExisting(h)
  \/ \E h \in Handlers : SaveReport(h)
  \/ \E h \in Handlers : AddReport(h)
  \/ \E h \in Handlers : ShouldAutoFlag(h)
  \/ \E h \in Handlers : FlagPost(h)
  \/ \E d \in TickHours : Tick(d)

Spec == Init /\ [][Next]_vars

NextSeq ==
  \/ \E h \in Handlers, u \in CallerInputs, p \in Posts \cup {MissingPost},
        reason \in ReasonInputsSeq : ReportPostSeq(h, u, p, reason)
  \/ \E h \in Handlers : FindExisting(h)
  \/ \E h \in Handlers : SaveReport(h)
  \/ \E h \in Handlers : AddReport(h)
  \/ \E h \in Handlers : ShouldAutoFlag(h)
  \/ \E h \in Handlers : FlagPost(h)
  \/ \E d \in TickHours : Tick(d)

SpecSeq == Init /\ [][NextSeq]_vars

(* One request at a time, and any database call may throw. *)
NextFault ==
  \/ NextSeq
  \/ \E h \in Handlers : DbError(h)

SpecFault == Init /\ [][NextFault]_vars

(* ------------------------------ unflagging ----------------------------- *)
(* post.unflagPost() on the post as it is stored, at any time, also while  *)
(* a report request is in flight; the report requests themselves run one   *)
(* at a time. probe keeps when it ran and how many reports the post        *)
(* counted then.                                                           *)
Unflag(p) ==
  /\ posts[p].isFlagged
  /\ posts' = [posts EXCEPT ![p] = saveFlagPaths(@, unflagPost(@))]
  /\ probe' = [postId |-> p, unflaggedAt |-> now, reportCount |-> posts[p].reportCount]
  /\ resp' = NoResp
  /\ UNCHANGED <<now, reports, pc, req, doc, report, autoFlagResult, base, catalogue, rank, comments, questions, answers>>

NextFlag ==
  \/ NextSeq
  \/ \E p \in Posts : Unflag(p)

SpecFlag == Init /\ [][NextFlag]_vars

(* --------------------------- moderator review -------------------------- *)
AdminInputs == {MaxUsers + 1}
ActionInputs == {"none", "post_hidden"}
NotesInputs == {"seen"}

(* Mutant: the review weighs the report again, as a report of a new account. *)
reviewReweighed(r, adminId, action, notes, at) ==
  [ status |-> "reviewed", reviewedBy |-> <<adminId>>, reviewedAt |-> <<at>>,
    actionTaken |-> action, reviewNotes |-> <<notes>>,
    credibilityWeight |-> CREDIBILITY_TIERS.NEW_USER.weight,
    weightedScore |-> r.reasonWeight * CREDIBILITY_TIERS.NEW_USER.weight ] @@ r

(* The document after review's five assignments; a report that was never   *)
(* reviewed carries none of the four review fields.                        *)
review(r, adminId, action, notes, at) ==
  [ status |-> "reviewed", reviewedBy |-> <<adminId>>, reviewedAt |-> <<at>>,
    actionTaken |-> action, reviewNotes |-> <<notes>> ] @@ r

(* A moderator loads report i and reviews it; at most MaxReviews reports   *)
(* are reviewed.                                                           *)
Review(i, adminId, action, notes) ==
  /\ i \in 1..Len(reports)
  /\ Cardinality({j \in 1..Len(reports) : j # i /\ reports[j].status = "reviewed"})
       < MaxReviews
  /\ reports' = [reports EXCEPT ![i] = review(@, adminId, action, notes, now)]
  /\ resp' = NoResp
  /\ UNCHANGED <<now, posts, pc, req, doc, report, autoFlagResult, base, probe, catalogue, rank, comments, questions, answers>>

(* One request at a time, next to the moderators. *)
ReportPostReview(h, u, p, reason) ==
  /\ \A g \in Handlers : ~busy(g)
  /\ h = 1
  /\ Len(reports) < base + MaxReportsReview
  /\ receive(h, u, p, reason)
  /\ UNCHANGED <<now, posts, reports, base, probe, catalogue, rank, comments, questions, answers>>

NextReview ==
  \/ \E h \in Handlers, u \in CallerInputs, p \in Posts \cup {MissingPost},
        reason \in ReasonInputs : ReportPostReview(h, u, p, reason)
  \/ \E h \in Handlers : FindExisting(h)
  \/ \E h \in Handlers : SaveReport(h)
  \/ \E h \in Handlers : AddReport(h)
  \/ \E h \in Handlers : ShouldAutoFlag(h)
  \/ \E h \in Handlers : FlagPost(h)
  \/ \E d \in TickHours : Tick(d)
  \/ \E i \in 1..Len(reports), adminId \in AdminInputs, action \in ActionInputs,
        notes \in NotesInputs : Review(i, adminId, action, notes)

SpecReview == Init /\ [][NextReview]_vars

(* ------------------- the escalation check on its own ------------------- *)
(* The check is a function of the stored reports of a post and of the      *)
(* clock.  SpecStats stores report documents of every status and age class *)
(* (oldest first, by verified accounts of 100 days: credibility 3.0) and   *)
(* evaluates the three window queries and the check on them.  The reports  *)
(* on the edge of the 7-day window are VIOLENCE reports (9.00 each), the   *)
(* others SCAM_OR_FRAUD reports (7.50 each).                               *)
StatsNow == LOW_WINDOW + 1
StatusInputs == <<"pending", "reviewed", "dismissed", "action_taken">>
AgeInputs == <<LOW_WINDOW + 1, LOW_WINDOW, MODERATE_WINDOW, IMMEDIATE_WINDOW>>
AgeReason == <<"SCAM_OR_FRAUD", "VIOLENCE", "SCAM_OR_FRAUD", "SCAM_OR_FRAUD">>
Windows == {IMMEDIATE_WINDOW, MODERATE_WINDOW, LOW_WINDOW}

storedReport(u, a, status) ==
  LET at == StatsNow - AgeInputs[a]
      user == [userId |-> u, createdAt |-> <<at - 100 * HoursPerDay>>,
               isVerified |-> <<TRUE>>]
      r == [createdAt |-> at]
             @@ newReportBy(user, [userId |-> u, postId |-> 1, reason |-> AgeReason[a]], at)
  IN [r EXCEPT !.status = status]

InitStats ==
  /\ Empty(StatsNow)
  /\ posts = [p \in Posts |-> NewPost]
  /\ reports = <<>>
  /\ base = 0

storeKey(a, st) == a * Len(StatusInputs) + st

lastKey ==
  IF reports = <<>> THEN 0
  ELSE LET r == reports[Len(reports)]
       IN storeKey(CHOOSE a \in 1..Len(AgeInputs) : StatsNow - AgeInputs[a] = r.createdAt,
                   CHOOSE st \in 1..Len(StatusInputs) : StatusInputs[st] = r.status)

StoreReport(a, st) ==
  /\ Len(reports) < MaxHistory
  /\ storeKey(a, st) >= lastKey
  /\ reports' = Append(reports, storedReport(Len(reports) + 2, a, StatusInputs[st]))
  /\ probe' = NoProbe
  /\ UNCHANGED <<now, posts, pc, req, doc, report, autoFlagResult, resp, base, catalogue, rank, comments, questions, answers>>

Evaluate(p) ==
  /\ probe = NoProbe
  /\ probe' = [postId |-> p,
               stats |-> [w \in Windows |-> getPostReportStats(reports, p, w, now)],
               result |-> shouldAutoFlag(reports, p, now)]
  /\ UNCHANGED <<now, posts, reports, pc, req, doc, report, autoFlagResult, resp, base, catalogue, rank, comments, questions, answers>>

NextStats ==
  \/ \E a \in 1..Len(AgeInputs), st \in 1..Len(StatusInputs) : StoreReport(a, st)
  \/ \E p \in Posts : Evaluate(p)

SpecStats == InitStats /\ [][NextStats]_vars

(* The same check on histories whose sums meet each threshold exactly:     *)
(* VIOLENCE reports by verified accounts of 100 days (9.00 each, pending   *)
(* or dismissed) and SCAM_OR_FRAUD reports by unverified accounts of 100   *)
(* days (5.00 each, reviewed), of every age class, oldest first.           *)
CheckKinds ==
  << [reason |-> "VIOLENCE", isVerified |-> TRUE, status |-> "pending"],
     [reason |-> "SCAM_OR_FRAUD", isVerified |-> FALSE, status |-> "reviewed"],
     [reason |-> "VIOLENCE", isVerified |-> TRUE, status |-> "dismissed"] >>

weighedReport(u, a, k) ==
  LET at == StatsNow - AgeInputs[a]
      user == [userId |-> u, createdAt |-> <<at - 100 * HoursPerDay>>,
               isVerified |-> <<CheckKinds[k].isVerified>>]
      r == [createdAt |-> at]
             @@ newReportBy(user, [userId |-> u, postId |-> 1,
                                   reason |-> CheckKinds[k].reason], at)
  IN [r EXCEPT !.status = CheckKinds[k].status]

weighedKey(a, k) == a * Len(CheckKinds) + k

lastWeighedKey ==
  IF reports = <<>> THEN 0
  ELSE LET r == reports[Len(reports)]
       IN weighedKey(CHOOSE a \in 1..Len(AgeInputs) : StatsNow - AgeInputs[a] = r.createdAt,
                     CHOOSE k \in 1..Len(CheckKinds) :
                       /\ CheckKinds[k].reason = r.reason
                       /\ CheckKinds[k].status = r.status)

StoreWeighed(a, k) ==
  /\ Len(reports) < MaxHistoryCheck
  /\ weighedKey(a, k) >= lastWeighedKey
  /\ reports' = Append(reports, weighedReport(Len(reports) + 2, a, k))
  /\ probe' = NoProbe
  /\ UNCHANGED <<now, posts, pc, req, doc, report, autoFlagResult, resp, base, catalogue, rank, comments, questions, answers>>

NextCheck ==
  \/ \E a \in 1..Len(AgeInputs), k \in 1..Len(CheckKinds) : StoreWeighed(a, k)
  \/ \E p \in Posts : Evaluate(p)

SpecCheck == InitStats /\ [][NextCheck]_vars

(* ------------------- the credibility weight on its own ----------------- *)
(* The weight is a function of the account's creation time, of the         *)
(* verification flag and of the clock.  SpecCred applies it to accounts of *)
(* 0 to MaxAgeDays days, at the first and at the last hour of each day.    *)
HourInputs == {0, HoursPerDay - 1}

InitCred ==
  /\ Empty(0)
  /\ posts = [p \in Posts |-> NewPost]
  /\ reports = <<>>
  /\ base = 0

Weigh(days, hours, isVerified) ==
  LET accountCreatedAt == now - (days * HoursPerDay + hours)
  IN /\ probe' = [accountCreatedAt |-> accountCreatedAt, isVerified |-> isVerified,
                  weight |-> calculateCredibilityWeight(accountCreatedAt, isVerified, now)]
     /\ UNCHANGED <<now, posts, reports, pc, req, doc, report, autoFlagResult, resp, base, catalogue, rank, comments, questions, answers>>

NextCred ==
  \E days \in 0..MaxAgeDays, hours \in HourInputs, isVerified \in BOOLEAN :
    Weigh(days, hours, isVerified)

SpecCred == InitCred /\ [][NextCred]_vars

(* ======================= recommendationService.js ====================== *)
(* Text is a sequence of one-character strings, so that lower-casing,      *)
(* trimming, splitting and containment are computed and not assumed.  An   *)
(* optional value is <<>> when absent and <<v>> when present.  Scores are  *)
(* fixed-point in units of 1/RankUnit, which makes every term of both      *)
(* scorers exact for timestamps on whole hours.                            *)
RankUnit == 2 * 10 * HoursPerDay * 10

UpperCaseLetters == <<"A", "B", "C", "D", "E", "F", "G", "H", "I", "J", "K", "L", "M", "N", "O", "P", "Q", "R", "S", "T", "U", "V", "W", "X", "Y", "Z">>
LowerCaseLetters == <<"a", "b", "c", "d", "e", "f", "g", "h", "i", "j", "k", "l", "m", "n", "o", "p", "q", "r", "s", "t", "u", "v", "w", "x", "y", "z">>
WhiteSpace == {" "}
Comma == ","

toLowerCase(s) ==
  [i \in 1..Len(s) |->
     IF \E k \in 1..Len(UpperCaseLetters) : UpperCaseLetters[k] = s[i]
       THEN LowerCaseLetters[CHOOSE k \in 1..Len(UpperCaseLetters) : UpperCaseLetters[k] = s[i]]
       ELSE s[i]]

RECURSIVE trimStart(_)
trimStart(s) ==
  IF s # <<>> /\ Head(s) \in WhiteSpace THEN trimStart(Tail(s)) ELSE s

RECURSIVE trimEnd(_)
trimEnd(s) ==
  IF s # <<>> /\ s[Len(s)] \in WhiteSpace THEN trimEnd(SubSeq(s, 1, Len(s) - 1)) ELSE s

trim(s) == trimEnd(trimStart(s))

(* s.includes(t) *)
includes(s, t) == \E i \in 0..(Len(s) - Len(t)) : SubSeq(s, i + 1, i + Len(t)) = t

(* s.split(',') *)
RECURSIVE split(_)
split(s) ==
  IF \E i \in 1..Len(s) : s[i] = Comma
    THEN LET i == CHOOSE k \in 1..Len(s) : s[k] = Comma /\ \A j \in 1..(k - 1) : s[j] # Comma
         IN <<SubSeq(s, 1, i - 1)>> \o split(SubSeq(s, i + 1, Len(s)))
    ELSE <<s>>

(* a present, non-empty text is truthy *)
truthy(v) == v # Undefined /\ v[1] # <<>>

RECURSIVE flatten(_)
flatten(ss) == IF ss = <<>> THEN <<>> ELSE Head(ss) \o flatten(Tail(ss))

(* the elements of a Set, in insertion order *)
RECURSIVE arrayFromSet(_)
arrayFromSet(s) ==
  IF s = <<>> THEN <<>>
  ELSE LET d == arrayFromSet(SubSeq(s, 1, Len(s) - 1))
           x == s[Len(s)]
       IN IF \E i \in 1..Len(d) : d[i] = x THEN d ELSE Append(d, x)

(* address.split(',')[0]?.toLowerCase().trim(), kept when it is not empty *)
cityOf(address) ==
  IF truthy(address)
    THEN LET city == trim(toLowerCase(split(address[1])[1]))
         IN IF city # <<>> THEN <<city>> ELSE <<>>
    ELSE <<>>

nameOf(name) == IF truthy(name) THEN <<trim(toLowerCase(name[1]))>> ELSE <<>>

placeLocations(place) == nameOf(place.name) \o cityOf(place.address)

dayLocations(day) ==
  flatten([i \in 1..Len(day.places) |-> placeLocations(day.places[i])])
    \o cityOf(day.accommodation)

itineraryLocations(itinerary) ==
  nameOf(itinerary.startLocation) \o nameOf(itinerary.endLocation)
    \o flatten([i \in 1..Len(itinerary.dayPlans) |-> dayLocations(itinerary.dayPlans[i])])
    \o flatten([i \in 1..Len(itinerary.destinations) |-> nameOf(itinerary.destinations[i])])

extractLocationsFromItineraries(itineraries) ==
  arrayFromSet(flatten([i \in 1..Len(itineraries) |-> itineraryLocations(itineraries[i])]))

preferenceOf(itinerary, field) ==
  IF itinerary.preferences[field] # Undefined THEN itinerary.preferences[field] ELSE <<>>

extractUserPreferences(itineraries) ==
  [ budgetTypes |->
      arrayFromSet(flatten([i \in 1..Len(itineraries) |-> preferenceOf(itineraries[i], "budget")])),
    accommodationTypes |->
      arrayFromSet(flatten([i \in 1..Len(itineraries) |-> preferenceOf(itineraries[i], "accommodation")])),
    transportationTypes |->
      arrayFromSet(flatten([i \in 1..Len(itineraries) |-> preferenceOf(itineraries[i], "transportation")])) ]

calculateEngagementScore(post) ==
  post.likesCount * 3 * RankUnit + post.commentsCount * 5 * RankUnit
    + (post.viewsCount * RankUnit) \div 10

(* Mutant: the 30-to-90-day piece starts at 60. *)
calculateRecencyScoreJump(createdAt, at) ==
  LET hours == at - createdAt
      perDay(slopeTenths) == (slopeTenths * RankUnit) \div (10 * HoursPerDay)
      tail == 20 * RankUnit - (hours - 90 * HoursPerDay) * perDay(1)
  IN IF hours <= 7 * HoursPerDay THEN 100 * RankUnit
     ELSE IF hours <= 30 * HoursPerDay
       THEN 100 * RankUnit - (hours - 7 * HoursPerDay) * perDay(20)
     ELSE IF hours <= 90 * HoursPerDay
       THEN 60 * RankUnit - (hours - 30 * HoursPerDay) * perDay(5)
     ELSE IF tail > 0 THEN tail ELSE 0

(* daysDiff is hours / HoursPerDay, a fraction: the comparisons and the    *)
(* slopes are taken on the hours.                                          *)
calculateRecencyScore(createdAt, at) ==
  LET hours == at - createdAt
      perDay(slopeTenths) == (slopeTenths * RankUnit) \div (10 * HoursPerDay)
      tail == 20 * RankUnit - (hours - 90 * HoursPerDay) * perDay(1)
  IN IF hours <= 7 * HoursPerDay THEN 100 * RankUnit
     ELSE IF hours <= 30 * HoursPerDay
       THEN 100 * RankUnit - (hours - 7 * HoursPerDay) * perDay(20)
     ELSE IF hours <= 90 * HoursPerDay
       THEN 50 * RankUnit - (hours - 30 * HoursPerDay) * perDay(5)
     ELSE IF tail > 0 THEN tail ELSE 0

(* Mutant: only the post location is searched for the token. *)
isLocationMatchOneWay(postLocation, userLocations) ==
  IF ~truthy(postLocation) THEN FALSE
  ELSE LET postLoc == trim(toLowerCase(postLocation[1]))
       IN \E k \in 1..Len(userLocations) : includes(postLoc, userLocations[k])

isLocationMatch(postLocation, userLocations) ==
  IF ~truthy(postLocation) THEN FALSE
  ELSE LET postLoc == trim(toLowerCase(postLocation[1]))
           postParts == [i \in 1..Len(split(postLoc)) |-> trim(split(postLoc)[i])]
       IN \E k \in 1..Len(userLocations) :
            LET userLoc == userLocations[k]
            IN \/ includes(postLoc, userLoc)
               \/ includes(userLoc, postLoc)
               \/ \E i \in 1..Len(postParts) :
                    postParts[i] = userLoc \/ includes(userLoc, postParts[i])

relevantTags == <<<<"e", "x", "p", "e", "r", "i", "e", "n", "c", "e">>,
                  <<"t", "i", "p", "s">>,
                  <<"g", "u", "i", "d", "e">>,
                  <<"a", "d", "v", "e", "n", "t", "u", "r", "e">>,
                  <<"f", "o", "o", "d">>,
                  <<"c", "u", "l", "t", "u", "r", "e">>>>

popularLocations == <<<<"c", "o", "l", "o", "m", "b", "o">>,
                     <<"k", "a", "n", "d", "y">>,
                     <<"g", "a", "l", "l", "e">>,
                     <<"e", "l", "l", "a">>,
                     <<"s", "i", "g", "i", "r", "i", "y", "a">>,
                     <<"n", "u", "w", "a", "r", "a", " ", "e", "l", "i", "y", "a">>,
                     <<"m", "i", "r", "i", "s", "s", "a">>,
                     <<"u", "n", "a", "w", "a", "t", "u", "n", "a">>,
                     <<"a", "r", "u", "g", "a", "m", " ", "b", "a", "y">>,
                     <<"y", "a", "l", "a">>,
                     <<"t", "r", "i", "n", "c", "o", "m", "a", "l", "e", "e">>>>

isIn(list, x) == \E i \in 1..Len(list) : list[i] = x

matchingTags(post) == SelectSeq(post.tags, LAMBDA tag : isIn(relevantTags, toLowerCase(tag)))

(* Mutant: the flag penalty is subtracted. *)
calculatePersonalizedScoreMinus(post, userLocations, userPreferences, at) ==
  LET score ==
        (IF isLocationMatch(post.location, userLocations) THEN 100 * RankUnit ELSE 0)
        + Len(matchingTags(post)) * 15 * RankUnit
        + calculateEngagementScore(post) \div 2
        + (calculateRecencyScore(post.createdAt, at) * 3) \div 10
        + (IF post.images > 0 THEN 10 * RankUnit ELSE 0)
  IN IF post.isFlagged THEN score - 10 * RankUnit ELSE score

calculatePersonalizedScore(post, userLocations, userPreferences, at) ==
  LET score ==
        (IF isLocationMatch(post.location, userLocations) THEN 100 * RankUnit ELSE 0)
        + Len(matchingTags(post)) * 15 * RankUnit
        + calculateEngagementScore(post) \div 2
        + (calculateRecencyScore(post.createdAt, at) * 3) \div 10
        + (IF post.images > 0 THEN 10 * RankUnit ELSE 0)
  IN IF post.isFlagged THEN score \div 2 ELSE score

calculateGenericScore(post, at) ==
  LET score ==
        calculateEngagementScore(post)
        + calculateRecencyScore(post.createdAt, at) \div 2
        + (IF /\ truthy(post.location)
              /\ \E i \in 1..Len(popularLocations) :
                   includes(toLowerCase(post.location[1]), popularLocations[i])
             THEN 30 * RankUnit ELSE 0)
        + Len(post.tags) * 5 * RankUnit
        + (IF post.images > 0 THEN 15 * RankUnit ELSE 0)
  IN IF post.isFlagged THEN (score * 3) \div 10 ELSE score

(* ------------------------- getRecommendedPosts ------------------------- *)
(* The value fetchUserItineraries hands back is whatever response.data.data *)
(* holds: an array (of itinerary objects, or of anything else), a string or *)
(* an object.                                                              *)
jsArray(items) == [kind |-> "array", items |-> items]
jsString(text) == [kind |-> "string", items |-> text]
jsObject == [kind |-> "object", items |-> <<>>]
EmptyList == jsArray(<<>>)

jsTruthy(v) == v.kind # "string" \/ v.items # <<>>

(* v.length > 0; the length of a plain object is undefined *)
lengthPositive(v) == v.kind \in {"array", "string"} /\ Len(v.items) > 0

NullItem == [kind |-> "null"]

NoPreferences == [budget |-> Undefined, accommodation |-> Undefined, transportation |-> Undefined]

BareItinerary ==
  [ kind |-> "object", startLocation |-> Undefined, endLocation |-> Undefined,
    dayPlans |-> <<>>, destinations |-> <<>>, preferences |-> NoPreferences ]

KandyItinerary == [BareItinerary EXCEPT !.startLocation = <<<<"K", "a", "n", "d", "y", " ">>>>]

LuxuryItinerary == [BareItinerary EXCEPT !.preferences.budget = <<"luxury">>]

EllaItinerary ==
  [BareItinerary EXCEPT
     !.dayPlans = << [ places |-> << [name |-> Undefined, address |-> <<<<"E", "l", "l", "a", ",", " ", "S", "r", "i", " ", "L", "a", "n", "k", "a">>>>] >>,
                       accommodation |-> <<<<" ", ",", "B", "a", "d", "u", "l", "l", "a">>>> ] >>,
     !.destinations = << <<<<"G", "a", "l", "l", "e">>>> >>]

ItineraryInputs ==
  { <<>>, <<BareItinerary>>, <<LuxuryItinerary>>, <<EllaItinerary, KandyItinerary>> }

(* What the itinerary service answers. *)
Failed(kind) == [kind |-> kind, success |-> FALSE, data |-> Undefined]
Body(success, data) == [kind |-> "json", success |-> success, data |-> data]

ResponseInputs ==
  { Failed("timeout"), Failed("error"), Failed("status"), Failed("empty"), Failed("text"),
    Body(FALSE, <<jsArray(<<KandyItinerary>>)>>), Body(TRUE, Undefined),
    Body(TRUE, <<jsString(<<"o", "o", "p", "s">>)>>), Body(TRUE, <<jsObject>>),
    Body(TRUE, <<jsArray(<<NullItem>>)>>) }
  \cup { Body(TRUE, <<jsArray(items)>>) : items \in ItineraryInputs }

(* the request throws on a timeout, a network error and a non-2xx status *)
fetchUserItineraries(accessToken, response) ==
  IF ~accessToken THEN EmptyList
  ELSE IF response.kind \in {"timeout", "error", "status"} THEN EmptyList
  ELSE IF /\ response.kind = "json"
          /\ response.success
          /\ response.data # Undefined
          /\ jsTruthy(response.data[1])
    THEN response.data[1]
  ELSE EmptyList

(* forEach exists on arrays only, and reading a field of null throws *)
extractThrows(itineraries) ==
  \/ itineraries.kind # "array"
  \/ \E i \in 1..Len(itineraries.items) : itineraries.items[i].kind = "null"

(* ------------------------------ the posts ------------------------------ *)
FetchLimit == 500
RankUsers == {1}

BlankPost ==
  [ id |-> 0, status |-> "published", author |-> 3, hiddenBy |-> {}, createdAt |-> -HoursPerDay,
    likesCount |-> 0, commentsCount |-> 0, viewsCount |-> 0, location |-> Undefined,
    tags |-> <<>>, images |-> 0, isFlagged |-> FALSE ]

SamplePosts ==
  << [BlankPost EXCEPT !.id = 1],
     [BlankPost EXCEPT !.id = 2],
     [BlankPost EXCEPT !.id = 3, !.location = <<<<"K", "a", "n", "d", "y", " ", "L", "a", "k", "e", ",", " ", "K", "a", "n", "d", "y">>>>, !.tags = <<<<"f", "o", "o", "d">>>>, !.images = 1,
                       !.likesCount = 2, !.viewsCount = 10, !.isFlagged = TRUE],
     [BlankPost EXCEPT !.id = 4, !.createdAt = -(7 * HoursPerDay - 3), !.commentsCount = 1,
                       !.location = <<<<"E", "l", "l", "a">>>>, !.tags = <<<<"t", "i", "p", "s">>, <<"c", "u", "l", "t", "u", "r", "e">>>>],
     [BlankPost EXCEPT !.id = 5, !.status = "draft", !.likesCount = 9],
     [BlankPost EXCEPT !.id = 6, !.author = 1, !.likesCount = 9, !.hiddenBy = {2}],
     [BlankPost EXCEPT !.id = 7, !.hiddenBy = {1}, !.createdAt = -(100 * HoursPerDay),
                       !.location = <<<<"G", "a", "l", "l", "e", " ", "F", "o", "r", "t">>>>, !.likesCount = 1] >>

(* the collection holds nothing, the first or the last MaxCatalogue sample posts *)
CatalogueInputs ==
  { <<>>, SubSeq(SamplePosts, 1, MaxCatalogue),
    SubSeq(SamplePosts, Len(SamplePosts) - MaxCatalogue + 1, Len(SamplePosts)) }

(* Mutant: the posts the caller has hidden are not filtered out. *)
matchesHidden(post, userId) ==
  /\ post.status = "published"
  /\ post.author # userId

(* status: 'published', 'author.userId': {$ne: userId}, hiddenBy: {$ne: userId} *)
matches(post, userId) ==
  /\ post.status = "published"
  /\ post.author # userId
  /\ userId \notin post.hiddenBy

(* The answers .sort({createdAt: -1}) may give: the matching posts, newest *)
(* first, posts of one timestamp in either order.                         *)
Orders(userId) ==
  LET idx == {i \in 1..Len(catalogue) : matches(catalogue[i], userId)}
      n == Cardinality(idx)
  IN { [k \in 1..n |-> catalogue[f[k]]] :
         f \in { g \in [1..n -> idx] :
                  /\ \A i, j \in 1..n : i # j => g[i] # g[j]
                  /\ \A i, j \in 1..n :
                       i < j => catalogue[g[i]].createdAt >= catalogue[g[j]].createdAt } }

Min(a, b) == IF a < b THEN a ELSE b

(* Mutant: the page starts one position late. *)
sliceLate(s, from, to) == SubSeq(s, from + 2, Min(to, Len(s)))

(* s.slice(from, to) for 0 <= from *)
slice(s, from, to) == SubSeq(s, from + 1, Min(to, Len(s)))

algorithmOf(itineraries) == IF lengthPositive(itineraries) THEN "personalized" ELSE "generic"

scorePosts(found, itineraries, at) ==
  IF lengthPositive(itineraries)
    THEN LET userLocations == extractLocationsFromItineraries(itineraries.items)
             userPreferences == extractUserPreferences(itineraries.items)
         IN [i \in 1..Len(found) |->
               [post |-> found[i],
                score |-> calculatePersonalizedScore(found[i], userLocations, userPreferences, at)]]
    ELSE [i \in 1..Len(found) |->
            [post |-> found[i], score |-> calculateGenericScore(found[i], at)]]

(* Array.prototype.sort with (a, b) => b.score - a.score: descending and   *)
(* stable, an element goes behind the elements that score at least as much *)
RECURSIVE sortByScore(_)
sortByScore(scored) ==
  IF scored = <<>> THEN <<>>
  ELSE LET front == sortByScore(SubSeq(scored, 1, Len(scored) - 1))
           x == scored[Len(scored)]
           k == Cardinality({i \in 1..Len(front) : front[i].score >= x.score})
       IN SubSeq(front, 1, k) \o <<x>> \o SubSeq(front, k + 1, Len(front))

(* Mutant: callers without a credential get the posts ranked in reverse    *)
(* fetch order.                                                            *)
recommendedPostsByCaller(call, found, at) ==
  LET reversed == [i \in 1..Len(found) |-> found[Len(found) + 1 - i]]
      scoredPosts == sortByScore(scorePosts(IF call.accessToken THEN found ELSE reversed,
                                            call.itineraries, at))
      page == slice(scoredPosts, call.skip, call.skip + call.limit)
  IN [i \in 1..Len(page) |-> page[i].post]

(* steps 2 and 3 of getRecommendedPosts on the fetched posts *)
recommendedPosts(call, found, at) ==
  LET scoredPosts == sortByScore(scorePosts(found, call.itineraries, at))
      page == slice(scoredPosts, call.skip, call.skip + call.limit)
  IN [i \in 1..Len(page) |-> page[i].post]

NoResponse == Failed("none")

newCall(userId, accessToken, skip, limit) ==
  [ pc |-> "fetch", userId |-> userId, accessToken |-> accessToken, skip |-> skip,
    limit |-> limit, response |-> NoResponse, itineraries |-> EmptyList, posts |-> <<>>,
    algorithm |-> "none", error |-> "none", page |-> <<>>, at |-> 0 ]

rankFrame == <<now, posts, reports, pc, req, doc, report, autoFlagResult, resp, base, catalogue,
               comments, questions, answers>>

(* what a completed call has ranked, and the page it returned *)
ranked(call) ==
  [ skip |-> call.skip, limit |-> call.limit, itineraries |-> call.itineraries,
    posts |-> call.posts, at |-> call.at, page |-> call.page ]

(* The call starts; without a credential fetchUserItineraries answers []   *)
(* at once.                                                                *)
startCall(userId, accessToken, skip, limit) ==
  IF accessToken
    THEN newCall(userId, accessToken, skip, limit)
    ELSE [newCall(userId, accessToken, skip, limit) EXCEPT
            !.pc = "find",
            !.itineraries = fetchUserItineraries(accessToken, NoResponse)]

Recommend(userId, accessToken, skip, limit) ==
  /\ rank.pc \in {"idle", "done", "failed"}
  /\ rank' = startCall(userId, accessToken, skip, limit)
  /\ probe' = NoProbe
  /\ UNCHANGED rankFrame

(* The same page is asked for again, by any caller, right after a ranking  *)
(* has completed; probe keeps what that ranking saw and returned.          *)
RecommendAgain(userId, accessToken) ==
  /\ rank.pc = "done"
  /\ rank.algorithm # "recent"
  /\ rank' = startCall(userId, accessToken, rank.skip, rank.limit)
  /\ probe' = ranked(rank)
  /\ UNCHANGED rankFrame

(* The itinerary service answers, or the request times out. *)
FetchItineraries(response) ==
  /\ rank.pc = "fetch"
  /\ rank' = [rank EXCEPT !.pc = "find", !.response = response,
                          !.itineraries = fetchUserItineraries(rank.accessToken, response)]
  /\ UNCHANGED <<rankFrame, probe>>

(* Mutant: the query counts a view on every post it fetches. *)
FindPostsCountingViews ==
  /\ rank.pc = "find"
  /\ \E order \in Orders(rank.userId) :
     LET fetched == SubSeq(order, 1, Min(FetchLimit, Len(order)))
     IN rank' = IF lengthPositive(rank.itineraries) /\ extractThrows(rank.itineraries)
                  THEN [rank EXCEPT !.pc = "fallback", !.posts = fetched,
                                    !.error = "TypeError"]
                  ELSE [rank EXCEPT !.pc = "done", !.posts = fetched,
                                    !.algorithm = algorithmOf(rank.itineraries),
                                    !.page = recommendedPosts(rank, fetched, now),
                                    !.at = now]
  /\ catalogue' = [i \in 1..Len(catalogue) |->
                     IF matches(catalogue[i], rank.userId)
                       THEN [catalogue[i] EXCEPT !.viewsCount = @ + 1]
                       ELSE catalogue[i]]
  /\ UNCHANGED <<now, posts, reports, pc, req, doc, report, autoFlagResult, resp, base, probe,
                 comments, questions, answers>>

(* BlogPost.find answers; scoring, sorting and paging follow at once.  A   *)
(* TypeError in the extraction leads to the catch block.                   *)
FindPosts ==
  /\ rank.pc = "find"
  /\ \E order \in Orders(rank.userId) :
     LET fetched == SubSeq(order, 1, Min(FetchLimit, Len(order)))
     IN rank' = IF lengthPositive(rank.itineraries) /\ extractThrows(rank.itineraries)
                  THEN [rank EXCEPT !.pc = "fallback", !.posts = fetched,
                                    !.error = "TypeError"]
                  ELSE [rank EXCEPT !.pc = "done", !.posts = fetched,
                                    !.algorithm = algorithmOf(rank.itineraries),
                                    !.page = recommendedPosts(rank, fetched, now),
                                    !.at = now]
  /\ UNCHANGED <<rankFrame, probe>>

(* BlogPost.find throws. *)
FindPostsFails ==
  /\ rank.pc = "find"
  /\ rank' = [rank EXCEPT !.pc = "fallback", !.error = "MongoError"]
  /\ UNCHANGED <<rankFrame, probe>>

(* the catch block: the recent posts, paged by the database *)
FallbackFind ==
  /\ rank.pc = "fallback"
  /\ \E order \in Orders(rank.userId) :
       rank' = [rank EXCEPT !.pc = "done", !.posts = order, !.algorithm = "recent",
                            !.page = slice(order, rank.skip, rank.skip + rank.limit),
                            !.at = now]
  /\ UNCHANGED <<rankFrame, probe>>

(* the query of the catch block throws as well: the call rejects *)
FallbackFails ==
  /\ rank.pc = "fallback"
  /\ rank' = [rank EXCEPT !.pc = "failed"]
  /\ UNCHANGED <<rankFrame, probe>>

(* the call is abandoned between two of its steps *)
Abandon ==
  /\ rank.pc \in {"fetch", "find", "fallback"}
  /\ rank' = NoRank
  /\ UNCHANGED <<rankFrame, probe>>

RankStart == TickHours

InitRank ==
  /\ \E start \in RankStart : now = start
  /\ pc = [h \in Handlers |-> "idle"]
  /\ req = [h \in Handlers |-> NoReq]
  /\ doc = [h \in Handlers |-> Null]
  /\ report = [h \in Handlers |-> Null]
  /\ autoFlagResult = [h \in Handlers |-> NoResult]
  /\ resp = NoResp
  /\ probe = NoProbe
  /\ posts = [p \in Posts |-> NewPost]
  /\ reports = <<>>
  /\ base = 0
  /\ rank = NoRank
  /\ catalogue \in CatalogueInputs
  /\ comments = NoComments
  /\ questions = FirstQuestions
  /\ answers = FirstAnswers

NextRank ==
  \/ \E userId \in RankUsers, accessToken \in BOOLEAN, skip \in 0..MaxSkip,
        limit \in 1..MaxLimit : Recommend(userId, accessToken, skip, limit)
  \/ \E response \in ResponseInputs : FetchItineraries(response)
  \/ FindPosts
  \/ FindPostsFails
  \/ FallbackFind
  \/ FallbackFails
  \/ Abandon
  \/ \E d \in TickHours : Tick(d)

SpecRank == InitRank /\ [][NextRank]_vars

(* the same, with rankings that are repeated *)
NextRepeat ==
  \/ NextRank
  \/ \E userId \in RankUsers, accessToken \in BOOLEAN : RecommendAgain(userId, accessToken)

SpecRepeat == InitRank /\ [][NextRepeat]_vars

(* --------------------- the recency score on its own -------------------- *)
(* The score is a function of the creation time of the post and of the     *)
(* clock.  SpecRecency applies it to posts of every age of whole hours up  *)
(* to MaxRecencyDays days, one post in each run.                          *)
ScoreRecency(days, hours) ==
  LET createdAt == now - (days * HoursPerDay + hours)
  IN /\ probe = NoProbe
     /\ probe' = [createdAt |-> createdAt, score |-> calculateRecencyScore(createdAt, now)]
     /\ UNCHANGED <<now, posts, reports, pc, req, doc, report, autoFlagResult, resp, base, catalogue, rank, comments, questions, answers>>

NextRecency ==
  \E days \in 0..MaxRecencyDays, hours \in 0..(HoursPerDay - 1) : ScoreRecency(days, hours)

SpecRecency == InitCred /\ [][NextRecency]_vars

(* --------------------- the location match on its own ------------------- *)
(* The match is a function of the location name of the post and of the     *)
(* locations of the profile, which extractLocationsFromItineraries hands   *)
(* over lower-cased, trimmed and without repetition.  SpecMatch applies it *)
(* to posts without a location, with an empty or blank one and with names  *)
(* of one or two comma-separated parts, against up to MaxTokens locations. *)
LocationInputs ==
  { Undefined, <<<<>>>>, <<<<" ">>>>,
    <<<<"K", "a", "n", "d", "y", " ", "L", "a", "k", "e", ",", " ", "K", "a", "n", "d", "y">>>>,
    <<<<" ", "E", "L", "L", "A", " ">>>>,
    <<<<"G", "a", "l", "l", "e">>>>,
    <<<<"S", "r", "i", " ", "L", "a", "n", "k", "a", ",", " ", "E", "l", "l", "a">>>>,
    <<<<"J", "a", "f", "f", "n", "a">>>> }

TokenInputs ==
  { <<"k", "a", "n", "d", "y">>, <<"e", "l", "l", "a", " ", "r", "o", "c", "k">>,
    <<"g", "a", "l", "l", "e", " ", "f", "o", "r", "t">>, <<"y", "a", "l", "a">> }

(* the lists of at most n locations, none of them twice *)
RECURSIVE TokenLists(_)
TokenLists(n) ==
  IF n = 0 THEN {<<>>}
  ELSE LET shorter == TokenLists(n - 1)
       IN shorter \cup { Append(e[1], e[2]) :
                          e \in { f \in shorter \X TokenInputs :
                                    Len(f[1]) = n - 1 /\ ~isIn(f[1], f[2]) } }

MatchLocation(postLocation, userLocations) ==
  /\ probe' = [postLocation |-> postLocation, userLocations |-> userLocations,
               match |-> isLocationMatch(postLocation, userLocations)]
  /\ UNCHANGED <<now, posts, reports, pc, req, doc, report, autoFlagResult, resp, base, catalogue, rank, comments, questions, answers>>

NextMatch ==
  \E postLocation \in LocationInputs, userLocations \in TokenLists(MaxTokens) :
    MatchLocation(postLocation, userLocations)

SpecMatch == InitCred /\ [][NextMatch]_vars

(* ====================== comments and their counters ==================== *)
(* A comment is known by its place in the collection.  The requests are    *)
(* handled one at a time, each to its end.  User 1 owns the post, user 2   *)
(* writes the comments, user 3 likes them; each of the three asks for      *)
(* deletions.                                                              *)
LevelLimit == 10
CommenterInputs == {2}
LikerInputs == {3}
DeleterInputs == {1, 2, 3}
DeletedContent == "[Comment deleted]"

newComment(postId, userId, parentCommentId, level) ==
  [ post |-> postId, author |-> userId, content |-> "text",
    parentComment |-> parentCommentId, level |-> level, likes |-> <<>>,
    likesCount |-> 0, repliesCount |-> 0, isDeleted |-> FALSE, deletedAt |-> NullValue ]

isLikedBy(d, userId) == isIn(d.likes, userId)

addLike(d, userId) ==
  IF ~isIn(d.likes, userId)
    THEN [d EXCEPT !.likes = Append(@, userId), !.likesCount = Len(d.likes) + 1]
    ELSE d

removeLike(d, userId) ==
  LET likes == SelectSeq(d.likes, LAMBDA id : id # userId)
  IN [d EXCEPT !.likes = likes, !.likesCount = Len(likes)]

softDelete(d, at) ==
  [d EXCEPT !.isDeleted = TRUE, !.deletedAt = <<at>>, !.content = DeletedContent]

(* commentSchema.post('save'): runs after every save of a comment, with    *)
(* the saved document.                                                     *)
postSave(cs, d) ==
  IF d.parentComment # NullValue /\ ~d.isDeleted
    THEN [cs EXCEPT ![d.parentComment[1]].repliesCount = @ + 1]
    ELSE cs

(* the collection after comment c has been saved as d *)
saveComment(cs, c, d) ==
  postSave([i \in 1..Len(cs) \cup {c} |-> IF i = c THEN d ELSE cs[i]], d)

incrementCommentsCount(d) == [d EXCEPT !.commentsCount = @ + 1]

decrementCommentsCount(d) ==
  IF d.commentsCount > 0 THEN [d EXCEPT !.commentsCount = @ - 1] ELSE d

commentFrame ==
  <<now, reports, pc, req, doc, report, autoFlagResult, base, probe, catalogue, rank,
    questions, answers>>

MissingComment == MaxComments + 2

ParentInputs == {NullValue} \cup {<<c>> : c \in 1..Len(comments)} \cup {<<MissingComment>>}
CommentInputs == 1..Len(comments) \cup {MissingComment}

(* POST /posts/:postId/comments *)
AddComment(p, userId, parentCommentId) ==
  /\ Len(comments) < MaxComments
  /\ IF p \notin Posts
       THEN /\ resp' = [status |-> 404, message |-> "post"]
            /\ UNCHANGED <<comments, posts>>
     ELSE IF parentCommentId # NullValue /\ parentCommentId[1] \notin 1..Len(comments)
       THEN /\ resp' = [status |-> 404, message |-> "parent"]
            /\ UNCHANGED <<comments, posts>>
     ELSE IF parentCommentId # NullValue /\ comments[parentCommentId[1]].post # p
       THEN /\ resp' = [status |-> 400, message |-> "other post"]
            /\ UNCHANGED <<comments, posts>>
     ELSE LET level == IF parentCommentId = NullValue THEN 0
                       ELSE Min(comments[parentCommentId[1]].level + 1, LevelLimit)
              d == newComment(p, userId, parentCommentId, level)
          IN /\ comments' = saveComment(comments, Len(comments) + 1, d)
             /\ posts' = [posts EXCEPT ![p] = incrementCommentsCount(@)]
             /\ resp' = [status |-> 201, comment |-> Len(comments) + 1]
  /\ UNCHANGED commentFrame

(* the parent of a liked or unliked reply counts at most MaxRepliesCount *)
savesLeft(c) ==
  (c \in 1..Len(comments) /\ comments[c].parentComment # NullValue)
    => comments[comments[c].parentComment[1]].repliesCount < MaxRepliesCount

(* POST /comments/:commentId/like *)
LikeComment(userId, c) ==
  /\ savesLeft(c)
  /\ IF c \notin 1..Len(comments)
       THEN /\ resp' = [status |-> 404, message |-> "comment"]
            /\ UNCHANGED comments
     ELSE IF isLikedBy(comments[c], userId)
       THEN /\ resp' = [status |-> 400, message |-> "already liked"]
            /\ UNCHANGED comments
     ELSE LET d == addLike(comments[c], userId)
          IN /\ comments' = saveComment(comments, c, d)
             /\ resp' = [status |-> 200, likesCount |-> d.likesCount]
  /\ UNCHANGED <<commentFrame, posts>>

(* DELETE /comments/:commentId/like *)
UnlikeComment(userId, c) ==
  /\ savesLeft(c)
  /\ IF c \notin 1..Len(comments)
       THEN /\ resp' = [status |-> 404, message |-> "comment"]
            /\ UNCHANGED comments
     ELSE IF ~isLikedBy(comments[c], userId)
       THEN /\ resp' = [status |-> 400, message |-> "not liked"]
            /\ UNCHANGED comments
     ELSE LET d == removeLike(comments[c], userId)
          IN /\ comments' = saveComment(comments, c, d)
             /\ resp' = [status |-> 200, likesCount |-> d.likesCount]
  /\ UNCHANGED <<commentFrame, posts>>

(* DELETE /comments/:commentId *)
DeleteComment(userId, c) ==
  /\ IF c \notin 1..Len(comments)
       THEN /\ resp' = [status |-> 404, message |-> "comment"]
            /\ UNCHANGED <<comments, posts>>
     ELSE LET isAuthor == comments[c].author = userId
              isPostOwner == authorOf(comments[c].post) = userId
              d == softDelete(comments[c], now)
          IN IF ~isAuthor /\ ~isPostOwner
               THEN /\ resp' = [status |-> 403, message |-> "not authorized"]
                    /\ UNCHANGED <<comments, posts>>
               ELSE /\ comments' = saveComment(comments, c, d)
                    /\ posts' = [posts EXCEPT ![comments[c].post] = decrementCommentsCount(@)]
                    /\ resp' = [status |-> 200, message |-> "deleted"]
  /\ UNCHANGED commentFrame

InitComments ==
  /\ Empty(0)
  /\ posts = [p \in Posts |-> NewPost]
  /\ reports = <<>>
  /\ base = 0

NextComments ==
  \/ \E p \in Posts \cup {MissingPost}, userId \in CommenterInputs,
        parentCommentId \in ParentInputs : AddComment(p, userId, parentCommentId)
  \/ \E userId \in LikerInputs, c \in CommentInputs : LikeComment(userId, c)
  \/ \E userId \in LikerInputs, c \in CommentInputs : UnlikeComment(userId, c)
  \/ \E userId \in DeleterInputs, c \in CommentInputs : DeleteComment(userId, c)

SpecComments == InitComments /\ [][NextComments]_vars

(* ===================== votes on questions and answers ================== *)
(* questionSchema.methods.updateVote and answerSchema.methods.updateVote   *)
(* are the same text; updateVote is applied to documents of both kinds.    *)
(* The votes are cast one at a time, on question 1 and on answer 1, by     *)
(* users 1 to MaxVoters.                                                   *)
VoteTypes == {"up", "down"}
VoteTypeInputs == VoteTypes \cup {"sideways"}
VoterInputs == 1..MaxVoters
MissingQuestion == 2
MissingAnswer == Len(AnswerAuthors) + 1
VotedAnswers == {1}

removeAt(s, i) == SubSeq(s, 1, i - 1) \o SubSeq(s, i + 1, Len(s))

(* Mutant: a vote of the type the user holds is stored once more. *)
updateVoteAgain(d, userId, voteType) ==
  LET held == {i \in 1..Len(d.votedBy) : d.votedBy[i].userId = userId}
      existingVoteIndex == IF held = {} THEN 0 ELSE CHOOSE i \in held : \A j \in held : i <= j
      changed == existingVoteIndex # 0 /\ d.votedBy[existingVoteIndex].voteType # voteType
      votedBy == IF changed THEN [d.votedBy EXCEPT ![existingVoteIndex].voteType = voteType]
                 ELSE Append(d.votedBy, [userId |-> userId, voteType |-> voteType])
      upvotes == d.votes.upvotes + (IF voteType = "up" THEN 1 ELSE IF changed THEN -1 ELSE 0)
      downvotes == d.votes.downvotes + (IF voteType = "down" THEN 1 ELSE IF changed THEN -1 ELSE 0)
  IN [d EXCEPT !.votedBy = votedBy,
               !.votes = [upvotes |-> upvotes, downvotes |-> downvotes,
                          score |-> upvotes - downvotes]]

(* the document after updateVote, as it is saved *)
updateVote(d, userId, voteType) ==
  LET held == {i \in 1..Len(d.votedBy) : d.votedBy[i].userId = userId}
      existingVoteIndex == IF held = {} THEN 0 ELSE CHOOSE i \in held : \A j \in held : i <= j
      same == existingVoteIndex # 0 /\ d.votedBy[existingVoteIndex].voteType = voteType
      changed == existingVoteIndex # 0 /\ ~same
      votedBy == IF same THEN removeAt(d.votedBy, existingVoteIndex)
                 ELSE IF changed
                   THEN [d.votedBy EXCEPT ![existingVoteIndex].voteType = voteType]
                 ELSE Append(d.votedBy, [userId |-> userId, voteType |-> voteType])
      upvotes ==
        d.votes.upvotes
          + (IF voteType = "up" THEN (IF same THEN -1 ELSE 1) ELSE (IF changed THEN -1 ELSE 0))
      downvotes ==
        d.votes.downvotes
          + (IF voteType = "down" THEN (IF same THEN -1 ELSE 1) ELSE (IF changed THEN -1 ELSE 0))
  IN [d EXCEPT !.votedBy = votedBy,
               !.votes = [upvotes |-> upvotes, downvotes |-> downvotes,
                          score |-> upvotes - downvotes]]

(* getUserVote *)
getUserVote(d, userId) ==
  IF \E i \in 1..Len(d.votedBy) : d.votedBy[i].userId = userId
    THEN <<d.votedBy[CHOOSE i \in 1..Len(d.votedBy) :
                       /\ d.votedBy[i].userId = userId
                       /\ \A j \in 1..(i - 1) : d.votedBy[j].userId # userId].voteType>>
    ELSE NullValue

voteState(d) == [votes |-> d.votes, votedBy |-> d.votedBy]

(* probe keeps the last cast: its target, its user, its type, the votes    *)
(* before it and, when the cast before it was the same cast, the votes     *)
(* before that one                                                         *)
cast(target, d, userId, voteType) ==
  [ target |-> target, userId |-> userId, voteType |-> voteType, before |-> voteState(d),
    first |-> IF /\ probe # NoProbe /\ probe.target = target
                 /\ probe.userId = userId /\ probe.voteType = voteType
                THEN <<probe.before>> ELSE <<>> ]

voteFrame ==
  <<now, posts, reports, pc, req, doc, report, autoFlagResult, base, catalogue, rank, comments>>

(* POST /questions/:id/vote *)
VoteQuestion(q, userId, voteType) ==
  /\ IF voteType \notin VoteTypes
       THEN /\ resp' = [status |-> 400, message |-> "vote type"]
            /\ UNCHANGED <<questions, probe>>
     ELSE IF q \notin DOMAIN questions \/ questions[q].isDeleted
       THEN /\ resp' = [status |-> 404, message |-> "question"]
            /\ UNCHANGED <<questions, probe>>
     ELSE IF questions[q].askedBy = userId
       THEN /\ resp' = [status |-> 400, message |-> "own question"]
            /\ UNCHANGED <<questions, probe>>
     ELSE LET d == updateVote(questions[q], userId, voteType)
          IN /\ questions' = [questions EXCEPT ![q] = d]
             /\ resp' = [status |-> 200, votes |-> d.votes, userVote |-> getUserVote(d, userId)]
             /\ probe' = cast(<<"question", q>>, questions[q], userId, voteType)
  /\ UNCHANGED <<voteFrame, answers>>

(* POST /answers/:id/vote *)
VoteAnswer(a, userId, voteType) ==
  /\ IF voteType \notin VoteTypes
       THEN /\ resp' = [status |-> 400, message |-> "vote type"]
            /\ UNCHANGED <<answers, probe>>
     ELSE IF a \notin 1..Len(answers) \/ answers[a].isDeleted
       THEN /\ resp' = [status |-> 404, message |-> "answer"]
            /\ UNCHANGED <<answers, probe>>
     ELSE IF answers[a].answeredBy = userId
       THEN /\ resp' = [status |-> 400, message |-> "own answer"]
            /\ UNCHANGED <<answers, probe>>
     ELSE LET d == updateVote(answers[a], userId, voteType)
          IN /\ answers' = [answers EXCEPT ![a] = d]
             /\ resp' = [status |-> 200, votes |-> d.votes, userVote |-> getUserVote(d, userId)]
             /\ probe' = cast(<<"answer", a>>, answers[a], userId, voteType)
  /\ UNCHANGED <<voteFrame, questions>>

NextVote ==
  \/ \E q \in DOMAIN questions \cup {MissingQuestion}, userId \in VoterInputs,
        voteType \in VoteTypeInputs : VoteQuestion(q, userId, voteType)
  \/ \E a \in VotedAnswers \cup {MissingAnswer}, userId \in VoterInputs,
        voteType \in VoteTypeInputs : VoteAnswer(a, userId, voteType)

SpecVote == InitComments /\ [][NextVote]_vars

(* ============================ the best answer ========================== *)
(* Answer.updateMany in markAsBest: the other answers of the question,     *)
(* deleted ones included, lose the mark                                    *)
unmarkOthers(as, a) ==
  [i \in 1..Len(as) |->
     IF i # a /\ as[i].question = as[a].question
       THEN [as[i] EXCEPT !.isBestAnswer = FALSE] ELSE as[i]]

(* answerSchema.methods.markAsBest: the answers and the questions after it *)
markAsBest(qs, as, a) ==
  [ answers |-> [unmarkOthers(as, a) EXCEPT ![a].isBestAnswer = TRUE],
    questions |-> [qs EXCEPT ![as[a].question].bestAnswerId = <<a>>,
                             ![as[a].question].isAnswered = TRUE] ]

(* answerSchema.methods.unmarkAsBest *)
unmarkAsBest(qs, as, a) ==
  [ answers |-> [as EXCEPT ![a].isBestAnswer = FALSE],
    questions |-> [qs EXCEPT ![as[a].question].bestAnswerId = NullValue] ]

BestInputs == 1..(Len(AnswerAuthors) + 1)

(* PATCH /answers/:id/best *)
MarkBest(a, userId, mark) ==
  /\ IF a \notin 1..Len(answers) \/ answers[a].isDeleted
       THEN /\ resp' = [status |-> 404, message |-> "answer"]
            /\ UNCHANGED <<questions, answers>>
     ELSE IF answers[a].question \notin DOMAIN questions
       THEN /\ resp' = [status |-> 404, message |-> "question"]
            /\ UNCHANGED <<questions, answers>>
     ELSE IF questions[answers[a].question].askedBy # userId
       THEN /\ resp' = [status |-> 403, message |-> "question author"]
            /\ UNCHANGED <<questions, answers>>
     ELSE LET after == IF mark THEN markAsBest(questions, answers, a)
                       ELSE unmarkAsBest(questions, answers, a)
          IN /\ answers' = after.answers
             /\ questions' = after.questions
             /\ resp' = [status |-> 200, id |-> a,
                         isBestAnswer |-> after.answers[a].isBestAnswer]
  /\ UNCHANGED <<voteFrame, probe>>

NextBest ==
  \/ NextVote
  \/ \E a \in BestInputs, userId \in VoterInputs, mark \in BOOLEAN : MarkBest(a, userId, mark)

SpecBest == InitComments /\ [][NextBest]_vars

(* ------------------------------ properties ----------------------------- *)
reportsOf(p) == SelectSeq(reports, LAMBDA r : r.post = p)

hasReported(u, p) ==
  \E i \in 1..Len(reports) : reports[i].post = p /\ reports[i].reporter.userId = u

quiet == \A h \in Handlers : ~busy(h)

(* Every seeded history is a state the one-at-a-time service reaches from *)
(* a shorter history.                                                      *)
seedReached(seed) ==
  /\ quiet
  /\ base < Len(seed)
  /\ now = seedNow(seed)
  /\ reports = seedHistory(seed)
  /\ posts = seedPosts(seed)

SeedReachedS3 == seedReached(SeedS3)
SeedReachedV3 == seedReached(SeedV3)
SeedReachedV4 == seedReached(SeedV4)
SeedReachedV6 == seedReached(SeedV6)

(* C1: when the already-reported look-up of a submission runs while a      *)
(* report by the same user on the same post is stored, the submission is   *)
(* answered 400 and neither the reports nor the post change.               *)
C1_DuplicateRejected ==
  [][\A h \in Handlers :
       (pc[h] = "findExisting" /\ pc'[h] # "findExisting"
          /\ hasReported(req[h].userId, req[h].postId))
       => /\ pc'[h] = "idle"
          /\ resp'.status = 400
          /\ reports' = reports
          /\ posts' = posts]_vars

C1_Witness ==
  /\ resp.status = 400
  /\ resp.message = "already reported"
  /\ hasReported(resp.userId, resp.postId)

(* C2: the stored reports hold at most one report per (reporter, post).    *)
C2_OneReportPerUserAndPost ==
  \A i, j \in 1..Len(reports) :
    (reports[i].post = reports[j].post
       /\ reports[i].reporter.userId = reports[j].reporter.userId) => i = j

(* C3: once every submission has answered, reportCount is the number of    *)
(* stored reports of the post and totalReportScore the sum of their scores *)
C3_NoLostUpdate ==
  quiet => \A p \in Posts :
             /\ posts[p].reportCount = Len(reportsOf(p))
             /\ posts[p].totalReportScore = SumScores(reportsOf(p))

(* C4: a submission by the author of the post is answered 400 at once: no  *)
(* weight is computed, no report is stored and the post does not change.   *)
C4_SelfReportRejected ==
  /\ [](\A h \in Handlers : busy(h) => req[h].userId # authorOf(req[h].postId))
  /\ [](\A i \in 1..Len(reports) : reports[i].reporter.userId # authorOf(reports[i].post))
  /\ [][(resp'.status = 400 /\ resp'.message = "own post")
          => (reports' = reports /\ posts' = posts /\ report' = report /\ pc' = pc)]_vars

C4_Witness ==
  /\ resp.status = 400
  /\ resp.message = "own post"
  /\ resp.userId = authorOf(resp.postId)
  /\ Len(reports) > 0

withinHour(p) ==
  \A i \in 1..Len(reports) :
    reports[i].post = p => reports[i].createdAt >= now - 1

(* C5: one request at a time, all reports of a post within one hour: the   *)
(* post is unflagged with severity none while their weighted sum is below  *)
(* 15, and flagged critical once the sum is 15 or more.                    *)
C5_ThresholdCrossing ==
  \A p \in Posts :
    (quiet /\ withinHour(p)) =>
      IF SumScores(reportsOf(p)) >= 15 * ScoreUnit
        THEN posts[p].isFlagged /\ posts[p].flagSeverity = "critical"
        ELSE ~posts[p].isFlagged /\ posts[p].flagSeverity = "none"

(* four reports of 3.75 within the hour: flagged by the fourth, at 15.00 *)
C5_Witness ==
  /\ quiet /\ withinHour(1)
  /\ Len(reportsOf(1)) = 4
  /\ SumScores(reportsOf(1)) = 15 * ScoreUnit
  /\ posts[1].flagSeverity = "critical"
  /\ posts[1].flagReason = <<4, 15 * ScoreUnit, 1>>

(* C6: one request at a time, no step lowers the severity of a post or     *)
(* takes its flag away.                                                    *)
C6_NeverDowngraded ==
  [][\A p \in Posts :
       /\ sevRank(posts'[p].flagSeverity) >= sevRank(posts[p].flagSeverity)
       /\ (posts[p].isFlagged => posts'[p].isFlagged)]_vars

(* a critical post has just taken a report whose check answered high *)
C6_Witness ==
  /\ resp.status = 201
  /\ resp.autoFlagged
  /\ posts[resp.postId].flagSeverity = "critical"
  /\ shouldAutoFlag(reports, resp.postId, now).severity = "high"

(* C7: a post flagged moderate or high whose check answers a strictly      *)
(* higher severity is flagged again with that severity.                    *)
C7_EscalatesWhenFlagged ==
  [][\A h \in Handlers :
       LET p == req[h].postId
           result == shouldAutoFlag(reports, p, now)
       IN (/\ pc[h] = "shouldAutoFlag" /\ pc'[h] # "shouldAutoFlag"
           /\ resp'.status # 500
           /\ posts[p].isFlagged
           /\ posts[p].flagSeverity \in {"moderate", "high"}
           /\ sevRank(result.severity) > sevRank(posts[p].flagSeverity))
          => pc'[h] = "flagPost"]_vars

(* C8: with requests in flight together, the write of flagPost never       *)
(* replaces a stored severity by a lower one.                              *)
C8_ConcurrentMonotone ==
  [][\A h \in Handlers :
       (pc[h] = "flagPost" /\ pc'[h] = "idle")
       => sevRank(posts'[req[h].postId].flagSeverity)
            >= sevRank(posts[req[h].postId].flagSeverity)]_vars

(* C9: after a request has failed, its report is not stored, or the        *)
(* counters of the post include it and a due flag is written.              *)
C9_AllOrNothing ==
  (resp.status = 500 /\ hasReported(resp.userId, resp.postId)) =>
     /\ posts[resp.postId].reportCount = Len(reportsOf(resp.postId))
     /\ posts[resp.postId].totalReportScore = SumScores(reportsOf(resp.postId))
     /\ (shouldAutoFlag(reports, resp.postId, now).shouldFlag
           => posts[resp.postId].isFlagged)

RECURSIVE windowSum(_, _, _, _)
windowSum(i, p, w, statuses) ==
  IF i = 0 THEN 0
  ELSE windowSum(i - 1, p, w, statuses)
       + (IF /\ reports[i].post = p
             /\ reports[i].status \in statuses
             /\ now - reports[i].createdAt <= w
            THEN reports[i].weightedScore ELSE 0)

dismiss(i) == [reports EXCEPT ![i].status = "dismissed"]

(* C10: the window sums of the check are the sums over the pending and     *)
(* reviewed reports alone, and dismissing any report never raises the      *)
(* severity the check answers.                                             *)
C10_DismissedNotCounted ==
  probe # NoProbe =>
    /\ \A w \in Windows :
         probe.stats[w].totalWeightedScore
           = windowSum(Len(reports), probe.postId, w, {"pending", "reviewed"})
    /\ \A i \in 1..Len(reports) :
         sevRank(shouldAutoFlag(dismiss(i), probe.postId, now).severity)
           <= sevRank(probe.result.severity)

(* counting the dismissed reports would have flagged the post *)
C10_Witness ==
  /\ probe # NoProbe
  /\ probe.result.severity = "none"
  /\ \E i \in 1..Len(reports) : reports[i].status = "dismissed"
  /\ \E i \in 1..Len(reports) : reports[i].status = "action_taken"
  /\ windowSum(Len(reports), probe.postId, IMMEDIATE_WINDOW, {"pending", "reviewed"}) > 0
  /\ windowSum(Len(reports), probe.postId, IMMEDIATE_WINDOW,
               {"pending", "reviewed", "dismissed", "action_taken"}) >= 15 * ScoreUnit

(* C11: the autoFlagged field of a 201 answer is true exactly when the     *)
(* step that answers has set the flag of the post or raised its severity.  *)
C11_AutoFlaggedIffChanged ==
  [][resp'.status = 201 =>
       LET p == resp'.postId
       IN resp'.autoFlagged
            <=> \/ (~posts[p].isFlagged /\ posts'[p].isFlagged)
                \/ sevRank(posts'[p].flagSeverity) > sevRank(posts[p].flagSeverity)]_vars

(* whole days between the creation of the weighed account and the clock *)
probeAgeDays == (now - probe.accountCreatedAt) \div HoursPerDay

(* C12: the credibility weight is 0.5 below 7 days of account age, 1.0     *)
(* from 7 days, 1.5 from 30 days and 2.0 from 90 days, times 1.5 for a     *)
(* verified reporter: 3.0 for a verified account of 100 days, 0.5 for an   *)
(* unverified one of 3 days; and no younger account weighs more.           *)
C12_CredibilityTiers ==
  probe # NoProbe =>
    LET a == probeAgeDays
        tier == IF a < 7 THEN 50 ELSE IF a < 30 THEN 100 ELSE IF a < 90 THEN 150 ELSE 200
    IN /\ probe.weight = IF probe.isVerified THEN (tier * 3) \div 2 ELSE tier
       /\ (a = 100 /\ probe.isVerified) => probe.weight = 300
       /\ (a = 3 /\ ~probe.isVerified) => probe.weight = 50
       /\ \A d \in 0..a :
            calculateCredibilityWeight(now - d * HoursPerDay, probe.isVerified, now)
              <= probe.weight

(* a verified account of 100 days has been weighed 3.0 *)
C12_Witness ==
  /\ probe # NoProbe
  /\ probeAgeDays = 100
  /\ probe.isVerified
  /\ probe.weight = 300

ReviewFields == {"status", "reviewedBy", "reviewedAt", "actionTaken", "reviewNotes"}

profileEmpty(itineraries) ==
  /\ extractLocationsFromItineraries(itineraries) = <<>>
  /\ extractUserPreferences(itineraries).budgetTypes = <<>>
  /\ extractUserPreferences(itineraries).accommodationTypes = <<>>
  /\ extractUserPreferences(itineraries).transportationTypes = <<>>

scoredCall == rank.pc = "done" /\ rank.algorithm # "recent"

(* C14: a call that ranks by score uses the generic scorer exactly when    *)
(* the profile derived from the fetched itineraries is empty.              *)
C14_StrategyByProfile ==
  scoredCall =>
    (rank.algorithm = "generic" <=> profileEmpty(rank.itineraries.items))

(* the answer is the list of itinerary objects the service is to send *)
wellFormed(response) ==
  /\ response.kind = "json"
  /\ response.success
  /\ response.data # Undefined
  /\ response.data[1].kind = "array"
  /\ \A i \in 1..Len(response.data[1].items) : response.data[1].items[i].kind = "object"

sourceFailed(call) == ~call.accessToken \/ ~wellFormed(call.response)

(* C15: when the itinerary source fails (no credential, timeout, request   *)
(* error, non-success or malformed answer), fetchUserItineraries gives no  *)
(* itinerary and the call, unless the database fails, returns a page       *)
(* ranked by the generic scorer.                                           *)
C15_SourceFailureRanksGeneric ==
  (rank.pc \in {"find", "fallback", "done"} /\ sourceFailed(rank)
     /\ rank.error # "MongoError")
  => /\ ~lengthPositive(rank.itineraries)
     /\ rank.pc # "fallback"
     /\ rank.pc = "done" => rank.algorithm = "generic"

(* C16: no step of a getRecommendedPosts call, whether it completes,      *)
(* falls back, fails or is abandoned, changes a stored post, report or     *)
(* counter.                                                                *)
C16_RankingReadOnly ==
  [][posts' = posts /\ reports' = reports /\ catalogue' = catalogue]_vars

(* the catch block has returned a page of a stocked collection *)
C16_Witness ==
  /\ rank.pc = "done"
  /\ rank.algorithm = "recent"
  /\ rank.error = "TypeError"
  /\ Len(rank.page) > 0
  /\ Len(catalogue) > Len(rank.posts)

rankScores ==
  IF rank.algorithm = "personalized"
    THEN LET userLocations == extractLocationsFromItineraries(rank.itineraries.items)
             userPreferences == extractUserPreferences(rank.itineraries.items)
         IN [i \in 1..Len(rank.posts) |->
               calculatePersonalizedScore(rank.posts[i], userLocations, userPreferences, rank.at)]
    ELSE [i \in 1..Len(rank.posts) |-> calculateGenericScore(rank.posts[i], rank.at)]

(* the place of fetched post i in the descending, stable order of the scores *)
rankPosition(scores, i) ==
  1 + Cardinality({j \in 1..Len(scores) : scores[j] > scores[i]})
    + Cardinality({j \in 1..(i - 1) : scores[j] = scores[i]})

(* C18: the page of a scored call holds the fetched posts of places        *)
(* skip + 1 to skip + limit of the order by descending score in which      *)
(* posts of equal score keep their fetch order.                            *)
C18_PageOfSortedList ==
  scoredCall =>
    LET n == Len(rank.posts)
        scores == rankScores
        size == IF n - rank.skip < 0 THEN 0
                ELSE IF n - rank.skip < rank.limit THEN n - rank.skip ELSE rank.limit
    IN /\ Len(rank.page) = size
       /\ \A k \in 1..Len(rank.page) :
            \E i \in 1..n :
              rankPosition(scores, i) = rank.skip + k /\ rank.page[k] = rank.posts[i]

(* a page behind the best post that holds two posts of one score *)
C18_Witness ==
  /\ scoredCall
  /\ rank.skip > 0
  /\ Len(rank.page) > 1
  /\ Len(rank.posts) > rank.skip + Len(rank.page)
  /\ \E i, j \in 1..Len(rank.posts) :
       /\ i < j /\ rankScores[i] = rankScores[j]
       /\ rank.page = <<rank.posts[i], rank.posts[j]>>
  /\ \E i \in 1..Len(rank.posts) :
       rankScores[i] > rankScores[1] /\ rankPosition(rankScores, i) = 1

(* C19: a returned page never holds a post of the caller, a post the       *)
(* caller has hidden or a post that is not published, on the scored path   *)
(* and in the catch block.                                                 *)
C19_PageExcludesOwnHiddenUnpublished ==
  rank.pc = "done" =>
    \A k \in 1..Len(rank.page) :
      /\ rank.page[k].author # rank.userId
      /\ rank.userId \notin rank.page[k].hiddenBy
      /\ rank.page[k].status = "published"

(* the collection holds a post of each excluded kind, and a page came back *)
C19_Witness ==
  /\ rank.pc = "done"
  /\ Len(rank.page) > 0
  /\ \E i \in 1..Len(catalogue) : catalogue[i].author = rank.userId
  /\ \E i \in 1..Len(catalogue) : rank.userId \in catalogue[i].hiddenBy
  /\ \E i \in 1..Len(catalogue) : catalogue[i].status # "published"

(* C20: for every fetched post, the flagged post scores half of the        *)
(* unflagged post with the personalized scorer and three tenths of it with *)
(* the generic scorer.                                                     *)
C20_FlagPenaltyMultiplicative ==
  scoredCall =>
    \A i \in 1..Len(rank.posts) :
      LET flagged == [rank.posts[i] EXCEPT !.isFlagged = TRUE]
          clean == [rank.posts[i] EXCEPT !.isFlagged = FALSE]
          userLocations == extractLocationsFromItineraries(rank.itineraries.items)
          userPreferences == extractUserPreferences(rank.itineraries.items)
      IN /\ 2 * calculatePersonalizedScore(flagged, userLocations, userPreferences, rank.at)
              = calculatePersonalizedScore(clean, userLocations, userPreferences, rank.at)
         /\ 10 * calculateGenericScore(flagged, rank.at)
              = 3 * calculateGenericScore(clean, rank.at)

(* a flagged post that matches a location of the profile has been scored *)
C20_Witness ==
  /\ scoredCall
  /\ rank.algorithm = "personalized"
  /\ \E i \in 1..Len(rank.posts) :
       /\ rank.posts[i].isFlagged
       /\ isLocationMatch(rank.posts[i].location,
                          extractLocationsFromItineraries(rank.itineraries.items))
       /\ rankScores[i] > 0

(* the age, in hours, of the post whose recency was scored *)
probeAgeHours == now - probe.createdAt

RecencyBrackets == {0, 7 * HoursPerDay, 30 * HoursPerDay, 90 * HoursPerDay}

(* C21: the recency score of a post of any age >= 0 lies between 0 and     *)
(* 100, is 100 up to 7 days of age, is not above the score of the post one *)
(* hour younger nor above the score at a bracket boundary (0, 7, 30 and 90 *)
(* days) behind it, and is not below the score at a boundary ahead of it.  *)
C21_RecencyRangeMonotone ==
  probe # NoProbe =>
    /\ probe.score >= 0
    /\ probe.score <= 100 * RankUnit
    /\ probeAgeHours <= 7 * HoursPerDay => probe.score = 100 * RankUnit
    /\ probeAgeHours > 0 => calculateRecencyScore(probe.createdAt + 1, now) >= probe.score
    /\ \A b \in RecencyBrackets :
         /\ b <= probeAgeHours => calculateRecencyScore(now - b, now) >= probe.score
         /\ b >= probeAgeHours => calculateRecencyScore(now - b, now) <= probe.score

(* one hour past 30 days the score has dropped below the 54 of day 30 *)
C21_Witness ==
  /\ probe # NoProbe
  /\ probeAgeHours = 30 * HoursPerDay + 1
  /\ probe.score < 54 * RankUnit
  /\ probe.score > 0
  /\ calculateRecencyScore(now - 30 * HoursPerDay, now) = 54 * RankUnit

(* C22: a post without a location, or a profile without locations, never   *)
(* matches; a post whose lower-cased, trimmed location contains a location *)
(* of the profile matches, and so does a post whose location, or one of    *)
(* its comma-separated segments, is contained in a location of the profile *)
C22_LocationMatchBothWays ==
  probe # NoProbe =>
    LET tokens == probe.userLocations
        noLocation == ~truthy(probe.postLocation)
        postLoc == IF noLocation THEN <<>> ELSE trim(toLowerCase(probe.postLocation[1]))
        segments == split(postLoc)
    IN /\ (noLocation \/ tokens = <<>>) => ~probe.match
       /\ (~noLocation /\ \E k \in 1..Len(tokens) : includes(postLoc, tokens[k]))
            => probe.match
       /\ (~noLocation /\ \E k \in 1..Len(tokens) : includes(tokens[k], postLoc))
            => probe.match
       /\ (~noLocation /\ \E k \in 1..Len(tokens), i \in 1..Len(segments) :
                             includes(tokens[k], trim(segments[i])))
            => probe.match

(* a post matched through one of its segments alone: neither the location  *)
(* holds a profile location nor a profile location the whole location      *)
C22_Witness ==
  /\ probe # NoProbe
  /\ probe.match
  /\ Len(probe.userLocations) > 1
  /\ LET postLoc == trim(toLowerCase(probe.postLocation[1]))
     IN /\ Len(split(postLoc)) > 1
        /\ \A k \in 1..Len(probe.userLocations) :
             /\ ~includes(postLoc, probe.userLocations[k])
             /\ ~includes(probe.userLocations[k], postLoc)
        /\ \E k \in 1..Len(probe.userLocations), i \in 1..Len(split(postLoc)) :
             includes(probe.userLocations[k], trim(split(postLoc)[i]))

(* the sum of the counted reports of the probed post in a window *)
countedSum(w) == windowSum(Len(reports), probe.postId, w, CountedStatuses)

(* C23: the check answers critical exactly when the counted reports of the *)
(* last hour sum to 15 or more; otherwise high exactly when those of the   *)
(* last 24 hours sum to 30 or more; otherwise moderate exactly when those  *)
(* of the last 7 days sum to 50 or more; otherwise it does not flag and    *)
(* answers none.                                                           *)
C23_FirstWindowMetDecides ==
  probe # NoProbe =>
    LET expected ==
          IF countedSum(IMMEDIATE_WINDOW) >= 15 * ScoreUnit THEN "critical"
          ELSE IF countedSum(MODERATE_WINDOW) >= 30 * ScoreUnit THEN "high"
          ELSE IF countedSum(LOW_WINDOW) >= 50 * ScoreUnit THEN "moderate"
          ELSE "none"
    IN /\ probe.result.severity = expected
       /\ probe.result.shouldFlag <=> expected # "none"

(* the 7-day sum is 50.00 exactly, with reports inside the tighter windows *)
C23_Witness ==
  /\ probe # NoProbe
  /\ probe.result.severity = "moderate"
  /\ countedSum(LOW_WINDOW) = 50 * ScoreUnit
  /\ countedSum(MODERATE_WINDOW) > 0
  /\ countedSum(MODERATE_WINDOW) = countedSum(IMMEDIATE_WINDOW)

(* C24: one request at a time, every stored report carries the weight of   *)
(* its reason and weightedScore = reasonWeight x credibilityWeight; the     *)
(* addReport step of a request raises reportCount by 1 and                 *)
(* totalReportScore by the weightedScore of the report the request has     *)
(* stored; a 201 answer names that score; and between requests reportCount *)
(* is the number of stored reports of the post and totalReportScore the    *)
(* sum of their scores.                                                    *)
C24_AcceptedReportCounted ==
  /\ [](\A i \in 1..Len(reports) :
          /\ reports[i].reasonWeight = REPORT_REASONS[reports[i].reason]
          /\ reports[i].weightedScore
               = reports[i].reasonWeight * reports[i].credibilityWeight)
  /\ [](quiet => \A p \in Posts :
                   /\ posts[p].reportCount = Len(reportsOf(p))
                   /\ posts[p].totalReportScore = SumScores(reportsOf(p)))
  /\ [][\A h \in Handlers :
          (pc[h] = "addReport" /\ pc'[h] # "addReport")
          => LET p == req[h].postId
                 stored == reports[Len(reports)]
             IN /\ stored.post = p
                /\ stored.reporter.userId = req[h].userId
                /\ stored.weightedScore = report[h].weightedScore
                /\ posts'[p].reportCount = posts[p].reportCount + 1
                /\ posts'[p].totalReportScore
                     = posts[p].totalReportScore + stored.weightedScore]_vars
  /\ [][resp'.status = 201
          => \E i \in 1..Len(reports') :
               /\ reports'[i].post = resp'.postId
               /\ reports'[i].reporter.userId = resp'.userId
               /\ reports'[i].weightedScore = resp'.weightedScore
               /\ resp'.post.reportCount = posts'[resp'.postId].reportCount
               /\ resp'.post.totalReportScore = posts'[resp'.postId].totalReportScore]_vars

(* three reports of two different scores were accepted one after another *)
C24_Witness ==
  /\ quiet
  /\ resp.status = 201
  /\ Len(reports) >= base + 3
  /\ \E i, j \in (base + 1)..Len(reports) : reports[i].weightedScore # reports[j].weightedScore
  /\ posts[1].reportCount = Len(reports)
  /\ posts[1].totalReportScore = SumScores(reports)
  /\ posts[1].totalReportScore > 0

(* C25: every report a request has stored carries the account-creation     *)
(* time and the verification flag of the account of its reporter, and the  *)
(* credibility weight of that account at the time of the report.           *)
C25_CredibilityOfCaller ==
  \A i \in (base + 1)..Len(reports) :
    LET account == accountOf(reports[i].reporter.userId)
    IN /\ reports[i].reporter.accountCreatedAt = account.createdAt
       /\ reports[i].reporter.isVerified = account.isVerified
       /\ reports[i].credibilityWeight
            = calculateCredibilityWeight(account.createdAt, account.isVerified,
                                         reports[i].createdAt)

(* C26: every stored post is flagged exactly when its severity is          *)
(* moderate, high or critical, and has a flag time and a flag reason       *)
(* exactly when it is flagged, whatever the requests, flagPost and         *)
(* unflagPost have done to it.                                             *)
C26_FlagFieldsAgree ==
  \A p \in Posts :
    /\ posts[p].isFlagged <=> posts[p].flagSeverity \in {"moderate", "high", "critical"}
    /\ posts[p].isFlagged <=> posts[p].flaggedAt # NullValue
    /\ posts[p].isFlagged <=> posts[p].flagReason # NullValue

(* a post that was unflagged has been flagged again by a later report *)
C26_Witness ==
  /\ probe # NoProbe
  /\ posts[probe.postId].isFlagged
  /\ posts[probe.postId].flagSeverity = "critical"
  /\ posts[probe.postId].flagReason[1] > probe.reportCount
  /\ posts[probe.postId].flaggedAt[1] >= probe.unflaggedAt

(* the direct replies of comment c that are not deleted *)
liveReplies(c) ==
  {i \in 1..Len(comments) : comments[i].parentComment = <<c>> /\ ~comments[i].isDeleted}

(* C27: the repliesCount of every comment is the number of its direct      *)
(* replies that are not deleted, after any sequence of replies, likes,     *)
(* unlikes and deletions.                                                  *)
C27_RepliesCountMatches ==
  \A c \in 1..Len(comments) : comments[c].repliesCount = Cardinality(liveReplies(c))

(* the comments of post p that are not deleted *)
liveComments(p) == {i \in 1..Len(comments) : comments[i].post = p /\ ~comments[i].isDeleted}

(* C28: the commentsCount of a post is the number of its comments that are *)
(* not deleted, and is never negative, after any sequence of added and     *)
(* deleted comments, a deletion asked twice included.                      *)
C28_CommentsCountMatches ==
  \A p \in Posts :
    /\ posts[p].commentsCount >= 0
    /\ posts[p].commentsCount = Cardinality(liveComments(p))

(* the voted documents, questions and answers alike *)
votedDocs ==
  {questions[q] : q \in DOMAIN questions} \cup {answers[a] : a \in 1..Len(answers)}

votesOfType(d, voteType) ==
  Cardinality({i \in 1..Len(d.votedBy) : d.votedBy[i].voteType = voteType})

(* the votes of a document: its counters and who holds which vote *)
votesHeld(state) ==
  [ votes |-> state.votes,
    votedBy |-> {state.votedBy[i] : i \in 1..Len(state.votedBy)} ]

probeTarget ==
  IF probe.target[1] = "question" THEN questions[probe.target[2]]
  ELSE answers[probe.target[2]]

(* every user holds at most one vote, the counters count the votes held,   *)
(* and a vote of the author is answered 400 and changes nothing            *)
voteCountsAgree ==
  /\ [](\A d \in votedDocs :
          /\ \A i, j \in 1..Len(d.votedBy) :
               d.votedBy[i].userId = d.votedBy[j].userId => i = j
          /\ d.votes.upvotes = votesOfType(d, "up")
          /\ d.votes.downvotes = votesOfType(d, "down")
          /\ d.votes.upvotes >= 0 /\ d.votes.downvotes >= 0
          /\ d.votes.score = d.votes.upvotes - d.votes.downvotes
          /\ \A i \in 1..Len(d.votedBy) :
               d.votedBy[i].userId # (IF "askedBy" \in DOMAIN d THEN d.askedBy ELSE d.answeredBy))
  /\ [][(resp'.status = 400 /\ resp'.message \in {"own question", "own answer"})
          => (questions' = questions /\ answers' = answers)]_vars

heldOther(state) ==
  \E i \in 1..Len(state.votedBy) :
    /\ state.votedBy[i].userId = probe.userId
    /\ state.votedBy[i].voteType # probe.voteType

bestAnswers(q) ==
  {a \in 1..Len(answers) : answers[a].question = q /\ answers[a].isBestAnswer}

(* C30: after any sequence of markAsBest and unmarkAsBest calls on the     *)
(* answers of a question at most one answer is marked best, and the        *)
(* question's bestAnswerId is that answer, or null exactly when no answer  *)
(* is marked; unmarking an answer that is not the best one leaves          *)
(* bestAnswerId alone.                                                     *)
C30_OneBestAnswer ==
  \A q \in DOMAIN questions :
    /\ Cardinality(bestAnswers(q)) <= 1
    /\ \A a \in bestAnswers(q) : questions[q].bestAnswerId = <<a>>
    /\ (questions[q].bestAnswerId = NullValue) <=> (bestAnswers(q) = {})

====
